---- MODULE Spec2Model ----
(***************************************************************************)
(* A model of the agent-fetch coordination subsystem of where-the-plow:    *)
(* the schedule calculator (coordinator.py), the request authenticator    *)
(* and the checkin / report handlers (agent_routes.py), the agent registry *)
(* they read and write, the admin routes (admin_routes.py), and the direct *)
(* poll loop (collector.py) with the position store it shares with the     *)
(* reports (db.py).                                                        *)
(*                                                                         *)
(* Strings that the code compares or parses are sequences: an agent id is  *)
(* a sequence of character codes (Python compares strings code point by    *)
(* code point), a timestamp header is a sequence of one-character strings. *)
(***************************************************************************)
EXTENDS Integers, Sequences, FiniteSets, TLC

VARIABLES
    agents,       \* the agents table: registered agent id -> row
    clock,        \* the server clock, in ticks
    vehicles,     \* the vehicles table
    positions,    \* the positions table
    realtime,     \* store["realtime"]: source -> its cached snapshot
    resp,         \* the response of the last call handled
    last,         \* the last call handled: its operation, request and fault
    schedIds,     \* the agent_ids list handed to compute_schedule
    schedTarget,  \* its target_interval
    schedule,     \* the map compute_schedule returned
    schedPc,      \* "input": not computed yet; "running": agents follow it
    simTime,      \* the instant (seconds) the fetch timeline has reached
    nextFetch,    \* per agent: the instant of its next fetch
    fetched,      \* per instant 0..simTime: the agents that fetched then
    paused,       \* store["collector_paused"]: the source names paused
    pollPc,       \* per poll_source task: the await it is suspended at
    admin_password, \* settings.admin_password; "" when none is configured
    migrations_dir, \* the numbers of the NNN_*.py files in the migrations dir
    schema_version, \* the rows of the schema_version table, in insert order
    migPc,        \* run_migrations: "idle", "loop", "upgraded" or "raised"
    pending,      \* its pending list: the migrations it has yet to record
    applied,      \* the migrations whose upgrade returned in this run
    migRuns       \* the run_migrations calls made so far

collectorVars == <<paused, pollPc>>

schedVars == <<schedIds, schedTarget, schedule, schedPc, simTime, nextFetch, fetched>>

settingsVars == <<admin_password>>

migrateVars == <<migrations_dir, schema_version, migPc, pending, applied, migRuns>>

serverVars == <<agents, clock, vehicles, positions, realtime, resp, last>>

vars == <<agents, clock, vehicles, positions, realtime, resp, last,
          schedIds, schedTarget, schedule, schedPc, simTime, nextFetch, fetched,
          paused, pollPc, admin_password,
          migrations_dir, schema_version, migPc, pending, applied, migRuns>>

(***************************************************************************)
(* Bounds of the model.                                                    *)
(***************************************************************************)
\* the longest agent_ids list handed to compute_schedule
MaxSchedAgents == 3
\* the last instant of the simulated fetch timeline
MaxSimTime == 40
\* the resolution of the server clock: ticks in a second
TicksPerSecond == 2
\* the longest features list of a report
MaxFeatures == 2
\* the authenticated reports handled in one run
MaxReports == 2
\* the failed reports one agent makes in a run about its health
MaxFailures == 30
\* the longest body and the longest timestamp string signed, in bytes
MaxBytes == 2

(***************************************************************************)
(* Program constants.                                                      *)
(***************************************************************************)
\* compute_schedule's default target_interval
TARGET_INTERVAL == 6
\* validate_timestamp's default max_skew
MAX_SKEW == 30
\* build_schedule_response's interval for an agent absent from the schedule
FALLBACK_INTERVAL == 6
\* _NST_CORRECTION, 3 h 30 min, in the milliseconds of LocationDateTime
NST_CORRECTION_MS == 12600000
\* the consecutive failures from which an agent is shown degraded, hibernating
HEALTH_DEGRADED_THRESHOLD == 5
HEALTH_HIBERNATING_THRESHOLD == 30

(***************************************************************************)
(* Generic helpers.                                                        *)
(***************************************************************************)
Range(s) == {s[i] : i \in DOMAIN s}

NoDup(s) == \A i, j \in DOMAIN s : i # j => s[i] # s[j]

\* Python's str < str: code point by code point, a proper prefix first.
RECURSIVE StrLess(_, _)
StrLess(a, b) ==
    IF b = <<>> THEN FALSE
    ELSE IF a = <<>> THEN TRUE
    ELSE IF Head(a) # Head(b) THEN Head(a) < Head(b)
    ELSE StrLess(Tail(a), Tail(b))

\* One element put in its place in an ascending list (after its equals).
RECURSIVE InsertSorted(_, _)
InsertSorted(x, s) ==
    IF s = <<>> THEN <<x>>
    ELSE IF StrLess(x, Head(s)) THEN <<x>> \o s
    ELSE <<Head(s)>> \o InsertSorted(x, Tail(s))

\* sorted(agent_ids), computed: a stable ascending sort.
RECURSIVE SortedSeq(_)
SortedSeq(s) ==
    IF s = <<>> THEN <<>>
    ELSE InsertSorted(s[Len(s)], SortedSeq(SubSeq(s, 1, Len(s) - 1)))

(***************************************************************************)
(* Time.  The clock counts ticks of 1 / TicksPerSecond seconds; the code    *)
(* reads it as time.time() (a float) or datetime.now().                     *)
(***************************************************************************)
\* int(time.time()): the whole seconds elapsed
IntTime(c) == c \div TicksPerSecond

\* the instants the server clock takes: 40 s and a tick later
Times == {40 * TicksPerSecond, 40 * TicksPerSecond + 1}

Abs(x) == IF x < 0 THEN -x ELSE x

(***************************************************************************)
(* int(ts) for a str: surrounding whitespace stripped, an optional sign,    *)
(* then decimal digits, single underscores allowed between digits.          *)
(***************************************************************************)
DigitChars == {"0", "1", "2", "3", "4", "5", "6", "7", "8", "9"}

DigitVal(c) ==
    CASE c = "0" -> 0 [] c = "1" -> 1 [] c = "2" -> 2 [] c = "3" -> 3
      [] c = "4" -> 4 [] c = "5" -> 5 [] c = "6" -> 6 [] c = "7" -> 7
      [] c = "8" -> 8 [] c = "9" -> 9

RECURSIVE LStrip(_)
LStrip(s) == IF s # <<>> /\ Head(s) = " " THEN LStrip(Tail(s)) ELSE s

RECURSIVE RStrip(_)
RStrip(s) ==
    IF s # <<>> /\ s[Len(s)] = " " THEN RStrip(SubSeq(s, 1, Len(s) - 1)) ELSE s

\* digits, possibly grouped by single underscores
DigitsWellFormed(s) ==
    /\ s # <<>>
    /\ \A i \in DOMAIN s : s[i] \in DigitChars \cup {"_"}
    /\ s[1] # "_" /\ s[Len(s)] # "_"
    /\ \A i \in 1..(Len(s) - 1) : ~(s[i] = "_" /\ s[i + 1] = "_")

RECURSIVE DigitsValue(_, _)
DigitsValue(s, acc) ==
    IF s = <<>> THEN acc
    ELSE IF Head(s) = "_" THEN DigitsValue(Tail(s), acc)
    ELSE DigitsValue(Tail(s), 10 * acc + DigitVal(Head(s)))

\* [ok, val]: ok is FALSE where int() raises ValueError
ParseInt(ts) ==
    LET t == RStrip(LStrip(ts))
        signed == t # <<>> /\ Head(t) \in {"+", "-"}
        body == IF signed THEN Tail(t) ELSE t
        ok == DigitsWellFormed(body)
        mag == IF ok THEN DigitsValue(body, 0) ELSE 0
    IN  [ok |-> ok, val |-> IF signed /\ Head(t) = "-" THEN -mag ELSE mag]

\* str(n) for an int
RECURSIVE NatToStr(_)
NatToStr(n) ==
    LET d == <<"0", "1", "2", "3", "4", "5", "6", "7", "8", "9">>[(n % 10) + 1]
    IN  IF n < 10 THEN <<d>> ELSE NatToStr(n \div 10) \o <<d>>

IntToStr(n) == IF n < 0 THEN <<"-">> \o NatToStr(-n) ELSE NatToStr(n)

(***************************************************************************)
(* Coordinator.validate_timestamp                                           *)
(***************************************************************************)
SkewPastOnly(now, ts_int, max_skew) == now - ts_int <= max_skew

\* abs(now - ts_int) <= max_skew
WithinSkew(now, ts_int, max_skew) == Abs(now - ts_int) <= max_skew

ValidateTimestampUnparsedPasses(ts, c) ==
    LET p == ParseInt(ts) IN
    IF ~p.ok THEN TRUE
    ELSE WithinSkew(IntTime(c), p.val, MAX_SKEW)

validate_timestamp(ts, c) ==
    LET p == ParseInt(ts) IN
    IF ~p.ok THEN FALSE
    ELSE WithinSkew(IntTime(c), p.val, MAX_SKEW)

(***************************************************************************)
(* Request bodies.  kind tells what json.loads makes of the bytes:          *)
(*   "empty", "html"      not JSON (JSONDecodeError)                        *)
(*   "too_deep"           brackets nested deeper than the interpreter's     *)
(*                        recursion limit (RecursionError), closed or not   *)
(*   "json_list"          JSON, not an object                               *)
(*   "json_no_features"   an object without a "features" key                *)
(*   "json_features"      an object whose "features" are the given list;    *)
(*                        a feature with valid = FALSE fails AvlFeature's   *)
(*                        validation (say, no OBJECTID)                     *)
(***************************************************************************)
Feature(oid, ldt, passes) == [OBJECTID |-> oid, LocationDateTime |-> ldt, valid |-> passes]

EmptyBody == [kind |-> "empty", features |-> <<>>]
HtmlBody == [kind |-> "html", features |-> <<>>]
DeepBody == [kind |-> "too_deep", features |-> <<>>]
JsonListBody == [kind |-> "json_list", features |-> <<>>]
NoFeaturesBody == [kind |-> "json_no_features", features |-> <<>>]
AvlBody(features) == [kind |-> "json_features", features |-> features]

\* the feature lists agents submit
FeatureLists ==
    {<<>>, <<Feature(1, 1000, TRUE)>>,
     <<Feature(1, 1000, TRUE), Feature(2, 1000, TRUE)>>,
     <<Feature(1, 1000, TRUE), Feature(2, 1000, FALSE)>>}

Bodies ==
    {EmptyBody, HtmlBody, DeepBody, JsonListBody, NoFeaturesBody}
        \cup {AvlBody(f) : f \in FeatureLists}

(***************************************************************************)
(* Keys and signatures (agent_auth.py).  A keypair is named by the PEM text *)
(* generate_keypair gives its public half.  A signature records the key it  *)
(* was made with and the bytes that were hashed, which is all that          *)
(* verification can tell.                                                   *)
(***************************************************************************)
Keys == {"kA", "kB", "kX"}

\* the keys that agents register or the admin generates
AgentKeys == {"kA", "kB"}

\* the PEM texts of public keys: the one generate_keypair writes, and for kA
\* a second text of the same key (CRLF line ends)
PublicPems == Keys \cup {"kA-crlf"}

\* serialization.load_pem_public_key: the key a PEM text holds
load_pem_public_key(public_pem) ==
    IF public_pem = "kA-crlf" THEN "kA" ELSE public_pem

\* the EC PRIVATE KEY text of a keypair, and load_pem_private_key
PrivatePem(key) ==
    CASE key = "kA" -> "kA-private"
      [] key = "kB" -> "kB-private"
      [] key = "kX" -> "kX-private"

PrivatePems == {PrivatePem(k) : k \in Keys}

load_pem_private_key(private_pem) ==
    CHOOSE k \in Keys : PrivatePem(k) = private_pem

\* generate_keypair, for the keypair the generator draws
generate_keypair(key) == [public_pem |-> key, private_pem |-> PrivatePem(key)]

\* sha256(DER(public key)).hexdigest()[:16], as hex digit values; the
\* digests of the model's keys are pairwise different
agent_id_from_public_key(public_pem) ==
    LET public_key == load_pem_public_key(public_pem) IN
    CASE public_key = "kA" -> <<11, 2>>
      [] public_key = "kB" -> <<3, 15>>
      [] public_key = "kX" -> <<7, 0>>

AgentIds == {agent_id_from_public_key(k) : k \in Keys}

\* a body given byte by byte, for what the hash makes of it
RawBody(bytes) == [kind |-> "raw", features |-> <<>>, bytes |-> bytes]

\* the bytes of a body: those given, or one block that stands for them
BodyBytes(body) == IF body.kind = "raw" THEN body.bytes ELSE <<body>>

\* _compute_digest: sha256(body + timestamp.encode()), the hash taken as
\* collision free, so that the digest is the concatenation it hashes
_compute_digest(body, timestamp) == BodyBytes(body) \o timestamp

\* the X-Agent-Sig header: absent, the empty string, a string that is no
\* signature, or a signature
NoSig == [kind |-> "none", signer |-> "", digest |-> <<>>]
EmptySig == [kind |-> "empty", signer |-> "", digest |-> <<>>]
GarbageSig == [kind |-> "garbage", signer |-> "", digest |-> <<>>]

\* sign_payload: ECDSA over sha256(body || timestamp)
sign_payload(private_pem, body, timestamp) ==
    [kind |-> "signed", signer |-> load_pem_private_key(private_pem),
     digest |-> _compute_digest(body, timestamp)]

VerifyIgnoresTimestamp(public_pem, body, timestamp, signature) ==
    /\ signature.kind = "signed"
    /\ signature.signer = load_pem_public_key(public_pem)
    /\ Len(signature.digest) >= Len(BodyBytes(body))
    /\ SubSeq(signature.digest, 1, Len(BodyBytes(body))) = BodyBytes(body)

\* verify_signature: True only for a signature made by the key's private half
\* over the same digest; False on anything else
verify_signature(public_pem, body, timestamp, signature) ==
    /\ signature.kind = "signed"
    /\ signature.signer = load_pem_public_key(public_pem)
    /\ signature.digest = _compute_digest(body, timestamp)

(***************************************************************************)
(* Coordinator.compute_schedule.  A dict is a function on its keys; the    *)
(* dict comprehension keeps, for a key met twice, the later value.         *)
(***************************************************************************)
ScheduleOrderUnsorted(agent_ids) == agent_ids

\* sorted_ids = sorted(agent_ids)
ScheduleOrder(agent_ids) == SortedSeq(agent_ids)

ScheduleIntervalNotScaled(target_interval, n) == target_interval

\* interval = target_interval * n
ScheduleInterval(target_interval, n) == target_interval * n

\* "offset_seconds": target_interval * i, i from enumerate(sorted_ids)
ScheduleOffset(target_interval, i) == target_interval * i

compute_schedule(agent_ids, target_interval) ==
    IF agent_ids = <<>> THEN <<>>
    ELSE
        LET sorted_ids == ScheduleOrder(agent_ids)
            n == Len(sorted_ids)
            interval == ScheduleInterval(target_interval, n)
            LastIndex(aid) ==
                CHOOSE i \in DOMAIN sorted_ids :
                    /\ sorted_ids[i] = aid
                    /\ \A j \in DOMAIN sorted_ids : sorted_ids[j] = aid => j <= i
        IN  [aid \in Range(sorted_ids) |->
                [interval_seconds |-> interval,
                 offset_seconds |-> ScheduleOffset(target_interval, LastIndex(aid) - 1)]]

(***************************************************************************)
(* Coordinator.build_schedule_response                                      *)
(***************************************************************************)
ScheduleBody(interval, offset) ==
    [kind |-> "schedule", interval_seconds |-> interval, offset_seconds |-> offset, code |-> 200,
     error |-> "", status |-> ""]

ErrorBody(code, error) ==
    [kind |-> "error", interval_seconds |-> 0, offset_seconds |-> 0, code |-> code,
     error |-> error, status |-> ""]

\* {"status": ..., "message": ...}; the message is kept in the error field
StatusBody(code, status, message) ==
    [kind |-> "status", interval_seconds |-> 0, offset_seconds |-> 0, code |-> code,
     error |-> message, status |-> status]

\* any other body: {"ok": True}, a registration answer, a plain-text 400
PlainBody(code, status) ==
    [kind |-> "plain", interval_seconds |-> 0, offset_seconds |-> 0, code |-> code,
     error |-> "", status |-> status]

\* agent_register's {"agent_id": ..., "status": ...}
RegisteredBody(agent_id, status) ==
    [kind |-> "registered", interval_seconds |-> 0, offset_seconds |-> 0, code |-> 200,
     error |-> "", status |-> status, agent_id |-> agent_id]

BuildResponseAlwaysDefault(agent_id, sched) == ScheduleBody(FALLBACK_INTERVAL, 0)

build_schedule_response(agent_id, sched) ==
    IF agent_id \in DOMAIN sched
    THEN ScheduleBody(sched[agent_id].interval_seconds, sched[agent_id].offset_seconds)
    ELSE ScheduleBody(FALLBACK_INTERVAL, 0)

(***************************************************************************)
(* The agent registry: the agents table behind Database.get_agent,          *)
(* list_agents, register_agent, create_agent, approve_agent, revoke_agent   *)
(* and record_agent_report.  db is a function from the registered agent     *)
(* ids to their rows.                                                       *)
(***************************************************************************)
\* last_seen_at IS NULL
NeverSeen == -1

AgentRow(name, public_key, status) ==
    [public_key |-> public_key, status |-> status, name |-> name,
     last_seen_at |-> NeverSeen,
     total_reports |-> 0, failed_reports |-> 0, consecutive_failures |-> 0]

PutRow(db, agent_id, row) ==
    [a \in DOMAIN db \cup {agent_id} |-> IF a = agent_id THEN row ELSE db[a]]

\* the rows' ids as a list, in an order the callers do not depend on
RECURSIVE SetToSeq(_)
SetToSeq(S) ==
    IF S = {} THEN <<>>
    ELSE LET x == CHOOSE y \in S : TRUE IN <<x>> \o SetToSeq(S \ {x})

list_agents(db) == SetToSeq(DOMAIN db)

register_agent(db, agent_id, name, public_key) ==
    PutRow(db, agent_id, AgentRow(name, public_key, "pending"))

CreateAgentPending(db, agent_id, name, public_key) ==
    PutRow(db, agent_id, AgentRow(name, public_key, "pending"))

\* create_agent(agent_id, name, public_key, status="approved")
create_agent(db, agent_id, name, public_key) ==
    PutRow(db, agent_id, AgentRow(name, public_key, "approved"))

SetStatus(db, agent_id, status) ==
    IF agent_id \in DOMAIN db
    THEN [db EXCEPT ![agent_id].status = status]
    ELSE db

ApproveOnlyPending(db, agent_id) ==
    IF agent_id \in DOMAIN db /\ db[agent_id].status = "pending"
    THEN SetStatus(db, agent_id, "approved")
    ELSE db

approve_agent(db, agent_id) == SetStatus(db, agent_id, "approved")

revoke_agent(db, agent_id) == SetStatus(db, agent_id, "revoked")

RecordKeepsStreak(db, agent_id, success, c) ==
    IF agent_id \notin DOMAIN db THEN db
    ELSE IF success
    THEN [db EXCEPT ![agent_id].last_seen_at = c,
                    ![agent_id].total_reports = @ + 1]
    ELSE [db EXCEPT ![agent_id].last_seen_at = c,
                    ![agent_id].failed_reports = @ + 1,
                    ![agent_id].consecutive_failures = @ + 1]

RecordSuccessClearsFailed(db, agent_id, success, c) ==
    IF agent_id \notin DOMAIN db THEN db
    ELSE IF success
    THEN [db EXCEPT ![agent_id].last_seen_at = c,
                    ![agent_id].total_reports = @ + 1,
                    ![agent_id].failed_reports = 0,
                    ![agent_id].consecutive_failures = 0]
    ELSE [db EXCEPT ![agent_id].last_seen_at = c,
                    ![agent_id].failed_reports = @ + 1,
                    ![agent_id].consecutive_failures = @ + 1]

record_agent_report(db, agent_id, success, c) ==
    IF agent_id \notin DOMAIN db THEN db
    ELSE IF success
    THEN [db EXCEPT ![agent_id].last_seen_at = c,
                    ![agent_id].total_reports = @ + 1,
                    ![agent_id].consecutive_failures = 0]
    ELSE [db EXCEPT ![agent_id].last_seen_at = c,
                    ![agent_id].failed_reports = @ + 1,
                    ![agent_id].consecutive_failures = @ + 1]

(***************************************************************************)
(* Requests to /agents/checkin and /agents/report.  A header is absent or   *)
(* carries a string.                                                        *)
(***************************************************************************)
NoHeader == [val |-> <<>>, present |-> FALSE]
Header(v) == [val |-> v, present |-> TRUE]

\* Python's truth of request.headers.get(...): None and "" are false
Truthy(h) == h.present /\ h.val # <<>>

SigTruthy(sig) == sig.kind \notin {"none", "empty"}

Request(id, ts, sig, body) == [ts |-> ts, body |-> body, sig |-> sig, id |-> id]

(***************************************************************************)
(* agent_routes._authenticate_agent: [found, agent_id, error], the agent    *)
(* being None where found is FALSE and error "None" where it is None.       *)
(***************************************************************************)
AuthResult(found, agent_id, error) ==
    [error |-> error, agent_id |-> agent_id, found |-> found]

StatusThenSignatureSwapped(db, req) ==
    LET agent_id == req.id.val
        agent == db[agent_id]
    IN  IF ~verify_signature(agent.public_key, req.body, req.ts.val, req.sig)
        THEN AuthResult(FALSE, <<>>, "Invalid signature")
        ELSE IF agent.status = "pending"
        THEN AuthResult(TRUE, agent_id, "Agent pending approval")
        ELSE IF agent.status = "revoked"
        THEN AuthResult(TRUE, agent_id, "Agent revoked")
        ELSE AuthResult(TRUE, agent_id, "None")

StatusThenSignatureAdmitsPending(db, req) ==
    LET agent_id == req.id.val
        agent == db[agent_id]
    IN  IF agent.status = "revoked"
        THEN AuthResult(TRUE, agent_id, "Agent revoked")
        ELSE IF ~verify_signature(agent.public_key, req.body, req.ts.val, req.sig)
        THEN AuthResult(FALSE, <<>>, "Invalid signature")
        ELSE AuthResult(TRUE, agent_id, "None")

\* the checks on a known agent: its status, then the signature
StatusThenSignature(db, req) ==
    LET agent_id == req.id.val
        agent == db[agent_id]
    IN  IF agent.status = "pending"
        THEN AuthResult(TRUE, agent_id, "Agent pending approval")
        ELSE IF agent.status = "revoked"
        THEN AuthResult(TRUE, agent_id, "Agent revoked")
        ELSE IF ~verify_signature(agent.public_key, req.body, req.ts.val, req.sig)
        THEN AuthResult(FALSE, <<>>, "Invalid signature")
        ELSE AuthResult(TRUE, agent_id, "None")

AuthenticateLookupFirst(db, c, req) ==
    IF ~Truthy(req.id) \/ ~Truthy(req.ts) \/ ~SigTruthy(req.sig)
    THEN AuthResult(FALSE, <<>>, "Missing auth headers")
    ELSE IF req.id.val \notin DOMAIN db
    THEN AuthResult(FALSE, <<>>, "Unknown agent")
    ELSE IF ~validate_timestamp(req.ts.val, c)
    THEN AuthResult(FALSE, <<>>, "Timestamp expired")
    ELSE StatusThenSignature(db, req)

_authenticate_agent(db, c, req) ==
    IF ~Truthy(req.id) \/ ~Truthy(req.ts) \/ ~SigTruthy(req.sig)
    THEN AuthResult(FALSE, <<>>, "Missing auth headers")
    ELSE IF ~validate_timestamp(req.ts.val, c)
    THEN AuthResult(FALSE, <<>>, "Timestamp expired")
    ELSE IF req.id.val \notin DOMAIN db
    THEN AuthResult(FALSE, <<>>, "Unknown agent")
    ELSE StatusThenSignature(db, req)

(***************************************************************************)
(* agent_routes._get_current_schedule                                       *)
(***************************************************************************)
AllListed(db) == list_agents(db)

ApprovedAwakeListed(db) ==
    LET IsAwake(a) == /\ db[a].status = "approved"
                      /\ db[a].consecutive_failures < HEALTH_HIBERNATING_THRESHOLD
    IN  SelectSeq(list_agents(db), IsAwake)

\* approved_ids = [a["agent_id"] for a in agents if a["status"] == "approved"]
ApprovedListed(db) ==
    LET IsApproved(a) == db[a].status = "approved"
    IN  SelectSeq(list_agents(db), IsApproved)

_get_current_schedule(db) == compute_schedule(ApprovedListed(db), TARGET_INTERVAL)

AuthFailureAlways401(db, auth) == ErrorBody(401, auth.error)

\* the answer of checkin and of report to a request that failed authentication
AuthFailureResponse(db, auth) ==
    IF auth.error = "Unknown agent" THEN ErrorBody(401, auth.error)
    ELSE IF auth.error \in {"Agent pending approval", "Agent revoked"}
    THEN StatusBody(403,
                    IF auth.found THEN db[auth.agent_id].status ELSE "unknown",
                    auth.error)
    ELSE ErrorBody(401, auth.error)

(***************************************************************************)
(* agent_routes.checkin: the response; checkin writes nothing.              *)
(***************************************************************************)
checkin(db, c, req) ==
    LET auth == _authenticate_agent(db, c, req) IN
    IF auth.error # "None" THEN AuthFailureResponse(db, auth)
    ELSE build_schedule_response(auth.agent_id, _get_current_schedule(db))

(***************************************************************************)
(* The position store (db.py) and the realtime snapshot (snapshot.py).      *)
(* A vehicles row is keyed by (vehicle_id, source), a positions row by      *)
(* (vehicle_id, timestamp, source); of the other columns a position keeps   *)
(* collected_at, the time of the call that stored it.                       *)
(***************************************************************************)
VehicleRow(vehicle_id, source) == [vehicle_id |-> vehicle_id, source |-> source]

PositionRow(vehicle_id, timestamp, source, collected_at) ==
    [timestamp |-> timestamp, vehicle_id |-> vehicle_id, source |-> source,
     collected_at |-> collected_at]

PositionKeyNoSource(row) == <<row.vehicle_id, row.timestamp>>

\* PRIMARY KEY (vehicle_id, timestamp, source) of positions
PositionKey(row) == <<row.vehicle_id, row.timestamp, row.source>>

\* parse_avl_response: the (vehicles, positions) lists, when every feature
\* validates; the timestamp is LocationDateTime moved by the NST correction
AvlValid(data) == \A i \in DOMAIN data.features : data.features[i].valid

AvlVehicles(data) == [i \in DOMAIN data.features |-> data.features[i].OBJECTID]

AvlPositions(data) ==
    [i \in DOMAIN data.features |->
        [timestamp |-> data.features[i].LocationDateTime + NST_CORRECTION_MS,
         vehicle_id |-> data.features[i].OBJECTID]]

\* Database.upsert_vehicles, the first n of the list
upsert_vehicles(veh0, list, n, source) ==
    veh0 \cup {VehicleRow(list[i], source) : i \in 1..n}

\* Database.insert_positions, the first n of the list: INSERT OR IGNORE drops
\* a row whose key is already stored
insert_positions(pos0, list, n, collected_at, source) ==
    LET Row(i) == PositionRow(list[i].vehicle_id, list[i].timestamp, source, collected_at)
        Taken(i) == \E r \in pos0 : PositionKey(r) = PositionKey(Row(i))
    IN  pos0 \cup {Row(i) : i \in {j \in 1..n : ~Taken(j)}}

\* the count insert_positions returns: 0 for an empty list, else
\* count(*) after minus count(*) before
inserted_count(pos0, list, collected_at, source) ==
    IF list = <<>> THEN 0
    ELSE Cardinality(insert_positions(pos0, list, Len(list), collected_at, source))
            - Cardinality(pos0)

\* build_realtime_snapshot: per vehicle of the source, its latest position
build_realtime_snapshot(veh0, pos0, source) ==
    {[timestamp |-> p.timestamp, vehicle_id |-> p.vehicle_id] :
        p \in {q \in pos0 :
                 /\ q.source = source
                 /\ VehicleRow(q.vehicle_id, source) \in veh0
                 /\ \A r \in pos0 :
                      (r.source = source /\ r.vehicle_id = q.vehicle_id)
                          => r.timestamp <= q.timestamp}}

(***************************************************************************)
(* Faults of a report's processing: the step that raises, the number of    *)
(* rows it wrote before raising, and whether the database still fails when *)
(* the handler calls it next.                                               *)
(***************************************************************************)
NoFault == [k |-> 0, step |-> "none", lasting |-> FALSE]

Faults ==
    {NoFault}
        \cup {[k |-> k, step |-> "upsert", lasting |-> FALSE] : k \in 0..(MaxFeatures - 1)}
        \cup {[k |-> k, step |-> "insert", lasting |-> FALSE] : k \in 0..MaxFeatures}
        \cup {[k |-> 0, step |-> st, lasting |-> l] :
                st \in {"snapshot", "record"}, l \in BOOLEAN}
        \cup {[k |-> 0, step |-> st, lasting |-> TRUE] : st \in {"upsert", "insert"}}

\* whether the step can raise there while this payload is processed
FaultApplies(data, fault) ==
    CASE fault.step = "none" -> TRUE
      [] fault.step = "upsert" -> AvlValid(data) /\ fault.k < Len(data.features)
      [] fault.step = "insert" ->
            AvlValid(data) /\ Len(data.features) > 0 /\ fault.k <= Len(data.features)
      [] OTHER -> AvlValid(data)

(***************************************************************************)
(* agent_routes.report: the response and the state it leaves.               *)
(***************************************************************************)
Outcome(response, db, veh0, pos0, rt0) ==
    [agents |-> db, vehicles |-> veh0, positions |-> pos0,
     realtime |-> rt0, resp |-> response]

\* json.loads(body) gave a dict with a "features" key
BodyParses(body) == body.kind = "json_features"

\* json.loads(body) raised RecursionError, which is no ValueError
JsonLoadsOverflows(body) == body.kind = "too_deep"

\* an exception that left the handler: Starlette answers 500
ServerError == PlainBody(500, "Internal Server Error")

ProcessReportStaleSnapshot(db, veh0, pos0, rt0, c, agent_id, data, fault) ==
    LET n == Len(data.features)
        raisedAt ==
            IF ~AvlValid(data) THEN "validate"
            ELSE IF fault.step \in {"upsert", "insert", "snapshot", "record"}
            THEN fault.step
            ELSE "none"
        nUp == CASE raisedAt = "validate" -> 0
                 [] raisedAt = "upsert" -> fault.k
                 [] OTHER -> n
        nIns == CASE raisedAt \in {"validate", "upsert"} -> 0
                  [] raisedAt = "insert" -> fault.k
                  [] OTHER -> n
        veh == upsert_vehicles(veh0, AvlVehicles(data), nUp, "st_johns")
        pos == insert_positions(pos0, AvlPositions(data), nIns, c, "st_johns")
        rt == IF raisedAt \in {"none", "record"}
              THEN [s \in DOMAIN rt0 \cup {"st_johns"} |->
                      IF s = "st_johns"
                      THEN build_realtime_snapshot(veh0, pos0, "st_johns")
                      ELSE rt0[s]]
              ELSE rt0
        db1 == IF raisedAt = "none"
               THEN record_agent_report(db, agent_id, TRUE, c)
               ELSE db
    IN  [agents |-> db1, vehicles |-> veh, positions |-> pos,
         realtime |-> rt, raised |-> raisedAt # "none"]

\* the try block around process_poll, the snapshot and the success record:
\* the state it leaves and whether it raised
ProcessReport(db, veh0, pos0, rt0, c, agent_id, data, fault) ==
    LET n == Len(data.features)
        raisedAt ==
            IF ~AvlValid(data) THEN "validate"
            ELSE IF fault.step \in {"upsert", "insert", "snapshot", "record"}
            THEN fault.step
            ELSE "none"
        nUp == CASE raisedAt = "validate" -> 0
                 [] raisedAt = "upsert" -> fault.k
                 [] OTHER -> n
        nIns == CASE raisedAt \in {"validate", "upsert"} -> 0
                  [] raisedAt = "insert" -> fault.k
                  [] OTHER -> n
        veh == upsert_vehicles(veh0, AvlVehicles(data), nUp, "st_johns")
        pos == insert_positions(pos0, AvlPositions(data), nIns, c, "st_johns")
        rt == IF raisedAt \in {"none", "record"}
              THEN [s \in DOMAIN rt0 \cup {"st_johns"} |->
                      IF s = "st_johns"
                      THEN build_realtime_snapshot(veh, pos, "st_johns")
                      ELSE rt0[s]]
              ELSE rt0
        db1 == IF raisedAt = "none"
               THEN record_agent_report(db, agent_id, TRUE, c)
               ELSE db
    IN  [agents |-> db1, vehicles |-> veh, positions |-> pos,
         realtime |-> rt, raised |-> raisedAt # "none"]

\* except Exception: ... db.record_agent_report(agent["agent_id"], success=False)
AbsorbFailure(db, agent_id, raised, c) ==
    IF raised THEN record_agent_report(db, agent_id, FALSE, c) ELSE db

\* except (json.JSONDecodeError, ValueError): db.record_agent_report(..., success=False)
RecordParseFailure(db, agent_id, c) == record_agent_report(db, agent_id, FALSE, c)

ReportCountsRejected(db, veh0, pos0, rt0, c, req, fault) ==
    LET auth == _authenticate_agent(db, c, req) IN
    IF auth.error # "None"
    THEN Outcome(AuthFailureResponse(db, auth),
                 IF auth.found THEN record_agent_report(db, auth.agent_id, FALSE, c)
                 ELSE db,
                 veh0, pos0, rt0)
    ELSE IF ~BodyParses(req.body)
    THEN LET db1 == RecordParseFailure(db, auth.agent_id, c) IN
         Outcome(build_schedule_response(auth.agent_id, _get_current_schedule(db1)),
                 db1, veh0, pos0, rt0)
    ELSE LET pr == ProcessReport(db, veh0, pos0, rt0, c,
                                 auth.agent_id, req.body, fault)
             db2 == AbsorbFailure(pr.agents, auth.agent_id, pr.raised, c)
         IN  Outcome(build_schedule_response(auth.agent_id, _get_current_schedule(db2)),
                     db2, pr.vehicles, pr.positions, pr.realtime)

report(db, veh0, pos0, rt0, c, req, fault) ==
    LET auth == _authenticate_agent(db, c, req) IN
    IF auth.error # "None"
    THEN Outcome(AuthFailureResponse(db, auth), db, veh0, pos0, rt0)
    ELSE IF JsonLoadsOverflows(req.body)
    THEN Outcome(ServerError, db, veh0, pos0, rt0)
    ELSE IF ~BodyParses(req.body)
    THEN LET db1 == RecordParseFailure(db, auth.agent_id, c) IN
         Outcome(build_schedule_response(auth.agent_id, _get_current_schedule(db1)),
                 db1, veh0, pos0, rt0)
    ELSE LET pr == ProcessReport(db, veh0, pos0, rt0, c,
                                 auth.agent_id, req.body, fault)
             db2 == AbsorbFailure(pr.agents, auth.agent_id, pr.raised, c)
         IN  IF pr.raised /\ fault.lasting
             THEN \* record_agent_report(..., success=False) raises in the handler
                  Outcome(ServerError, pr.agents, pr.vehicles, pr.positions, pr.realtime)
             ELSE Outcome(build_schedule_response(auth.agent_id,
                                                  _get_current_schedule(db2)),
                          db2, pr.vehicles, pr.positions, pr.realtime)

(***************************************************************************)
(* admin_routes: the cookie check and the registry's admin operations.      *)
(***************************************************************************)
\* the admin_token cookie: absent, the empty string, the hex digest of a
\* password, or a string with a character outside ASCII
NoCookie == [kind |-> "none", hmac_of |-> ""]
EmptyCookie == [kind |-> "empty", hmac_of |-> ""]
Cookie(password) == [kind |-> "token", hmac_of |-> password]
NonAsciiCookie == [kind |-> "non_ascii", hmac_of |-> ""]

\* settings.admin_password: None (or empty) when ADMIN_PASSWORD is not set
NoPassword == ""
ConfiguredPassword == "secret"

\* hmac.new(password, _SALT, sha256).hexdigest()
_make_token(password) == Cookie(password)

\* hmac.compare_digest on two str raises TypeError unless both are ASCII
CompareDigestRaises(a, b) == a.kind = "non_ascii" \/ b.kind = "non_ascii"

\* _check_auth, where it returns
_check_auth(password, admin_token) ==
    IF password = NoPassword \/ admin_token.kind \in {"none", "empty"}
    THEN FALSE
    ELSE admin_token = _make_token(password)

\* _check_auth, where the comparison raises instead
CheckAuthRaises(password, admin_token) ==
    /\ password # NoPassword
    /\ admin_token.kind \notin {"none", "empty"}
    /\ CompareDigestRaises(admin_token, _make_token(password))

\* the first statement of every admin route but login:
\* if not _check_auth(admin_token): return 401
AdminGate(password, admin_token) ==
    IF CheckAuthRaises(password, admin_token) THEN "raises"
    ELSE IF _check_auth(password, admin_token) THEN "ok"
    ELSE "denied"

AdminTokens == {NoCookie, Cookie("secret"), Cookie("guess")}

\* what a call that did not pass the gate is answered
AdminRefusal(gate) ==
    IF gate = "raises" THEN ServerError ELSE ErrorBody(401, "Unauthorized")

\* create_agent's {"agent_id": ..., "name": ..., "private_key": ...}
CreatedBody(agent_id, name, private_key) ==
    [kind |-> "created", code |-> 200, agent_id |-> agent_id, name |-> name,
     private_key |-> private_key]

\* {"ok": True, "paused_sources": [...]}; the list holds a set's elements
PausedBody(paused_sources) ==
    [ok |-> TRUE, kind |-> "paused", code |-> 200, paused_sources |-> paused_sources]

\* admin_status's answer
AdminStatusBody(total, active, paused_sources) ==
    [kind |-> "admin_status", code |-> 200, paused_sources |-> paused_sources,
     total_agents |-> total, active_agents |-> active,
     using_agents |-> total > 0]

AgentHealthLateDegraded(consecutive_failures) ==
    IF consecutive_failures >= HEALTH_HIBERNATING_THRESHOLD THEN "hibernating"
    ELSE IF consecutive_failures > HEALTH_DEGRADED_THRESHOLD THEN "degraded"
    ELSE "healthy"

_agent_health(consecutive_failures) ==
    IF consecutive_failures >= HEALTH_HIBERNATING_THRESHOLD THEN "hibernating"
    ELSE IF consecutive_failures >= HEALTH_DEGRADED_THRESHOLD THEN "degraded"
    ELSE "healthy"

\* one element of the list GET /admin/agents returns
AgentEntry(agent_id, a) ==
    [status |-> a.status, agent_id |-> agent_id, name |-> a.name,
     last_seen_at |-> a.last_seen_at, total_reports |-> a.total_reports,
     failed_reports |-> a.failed_reports,
     consecutive_failures |-> a.consecutive_failures,
     health |-> _agent_health(a.consecutive_failures)]

AgentsBody(entries) == [agents |-> entries, kind |-> "agents", code |-> 200]

(***************************************************************************)
(* The server: its state after startup and one action per handler.  Each    *)
(* handler runs without suspension once the request body is read, so it is  *)
(* one step.                                                                *)
(***************************************************************************)
NullRequest == Request(NoHeader, NoHeader, NoSig, EmptyBody)

Call(op, req, fault) == [req |-> req, fault |-> fault, op |-> op]

FirstTime == CHOOSE t \in Times : \A u \in Times : t <= u

ServerInit ==
    /\ agents = <<>>
    /\ clock = FirstTime
    /\ vehicles = {}
    /\ positions = {}
    /\ realtime = <<>>
    /\ resp = PlainBody(0, "")
    /\ last = Call("start", NullRequest, NoFault)
    /\ admin_password = ConfiguredPassword

\* time passes
TickWithin(times) ==
    /\ \E t \in times : t > clock /\ clock' = t
    /\ last' = Call("tick", NullRequest, NoFault)
    /\ UNCHANGED <<agents, vehicles, positions, realtime, resp>>

Tick == TickWithin(Times)

\* POST /agents/register
RegistrationBodies(keys) ==
    {[kind |-> "html", public_key |-> "", name |-> ""],
     [kind |-> "json_list", public_key |-> "", name |-> ""]}
        \cup {[kind |-> "object", public_key |-> k, name |-> n] :
                n \in {"", "plow-1", "plow-2"}, k \in {"", "not a key"} \cup keys}

RegisterAlways(db, agent_id, name, public_key) ==
    register_agent(db, agent_id, name, public_key)

\* existing = db.get_agent(agent_id); if existing: return ...; db.register_agent(...)
RegisterUnlessKnown(db, agent_id, name, public_key) ==
    IF agent_id \in DOMAIN db THEN db
    ELSE register_agent(db, agent_id, name, public_key)

agent_register(body) ==
    /\ last' = Call("register", body, NoFault)
    /\ UNCHANGED <<clock, vehicles, positions, realtime>>
    /\ IF body.kind = "html"
       THEN resp' = PlainBody(400, "") /\ agents' = agents
       ELSE IF body.kind = "json_list"
       THEN resp' = PlainBody(500, "") /\ agents' = agents
       ELSE IF body.name = "" \/ body.public_key = ""
       THEN resp' = PlainBody(400, "") /\ agents' = agents
       ELSE IF body.public_key \notin PublicPems
       THEN resp' = PlainBody(400, "") /\ agents' = agents
       ELSE LET agent_id == agent_id_from_public_key(body.public_key) IN
            /\ agents' = RegisterUnlessKnown(agents, agent_id, body.name, body.public_key)
            /\ resp' = IF agent_id \in DOMAIN agents
                       THEN RegisteredBody(agent_id, agents[agent_id].status)
                       ELSE RegisteredBody(agent_id, "pending")

\* the path parameter and the cookie of an admin call
AdminRequest(admin_token, agent_id) == [agent_id |-> agent_id, admin_token |-> admin_token]

\* POST /admin/agents/create: generate_keypair() yields a key not seen before
StoredPrivatePem(pair) == pair.private_pem

\* the key create_agent hands to the registry: db.create_agent(.., public_pem)
StoredPublicKey(pair) == pair.public_pem

\* POST /admin/agents/create; new_key is the keypair generate_keypair draws
create_agent_route(admin_token, new_key) ==
    LET gate == AdminGate(admin_password, admin_token)
        pair == generate_keypair(new_key)
        agent_id == agent_id_from_public_key(pair.public_pem)
    IN  /\ last' = Call("create", AdminRequest(admin_token, agent_id), NoFault)
        /\ UNCHANGED <<clock, vehicles, positions, realtime>>
        /\ IF gate # "ok"
           THEN resp' = AdminRefusal(gate) /\ agents' = agents
           ELSE /\ agent_id \notin DOMAIN agents
                /\ agents' = create_agent(agents, agent_id, "admin-made",
                                          StoredPublicKey(pair))
                /\ resp' = CreatedBody(agent_id, "admin-made", pair.private_pem)

\* POST /admin/agents/{agent_id}/approve
approve_agent_route(admin_token, agent_id) ==
    LET gate == AdminGate(admin_password, admin_token) IN
    /\ last' = Call("approve", AdminRequest(admin_token, agent_id), NoFault)
    /\ UNCHANGED <<clock, vehicles, positions, realtime>>
    /\ IF gate # "ok"
       THEN resp' = AdminRefusal(gate) /\ agents' = agents
       ELSE agents' = approve_agent(agents, agent_id) /\ resp' = PlainBody(200, "")

\* POST /admin/agents/{agent_id}/revoke
revoke_agent_route(admin_token, agent_id) ==
    LET gate == AdminGate(admin_password, admin_token) IN
    /\ last' = Call("revoke", AdminRequest(admin_token, agent_id), NoFault)
    /\ UNCHANGED <<clock, vehicles, positions, realtime>>
    /\ IF gate # "ok"
       THEN resp' = AdminRefusal(gate) /\ agents' = agents
       ELSE agents' = revoke_agent(agents, agent_id) /\ resp' = PlainBody(200, "")

\* GET /admin/agents
list_agents_route(admin_token) ==
    LET gate == AdminGate(admin_password, admin_token)
        listed == list_agents(agents)
    IN  /\ last' = Call("list", AdminRequest(admin_token, <<>>), NoFault)
        /\ UNCHANGED <<agents, clock, vehicles, positions, realtime>>
        /\ resp' = IF gate # "ok" THEN AdminRefusal(gate)
                   ELSE AgentsBody([i \in 1..Len(listed) |->
                                       AgentEntry(listed[i], agents[listed[i]])])

ReportsHandled ==
    LET Done(a) == agents[a].total_reports + agents[a].failed_reports
        RECURSIVE Sum(_)
        Sum(S) == IF S = {} THEN 0
                  ELSE LET a == CHOOSE x \in S : TRUE IN Done(a) + Sum(S \ {a})
    IN  Sum(DOMAIN agents)

CheckinTouches(db, c, req) ==
    LET auth == _authenticate_agent(db, c, req) IN
    IF auth.error = "None"
    THEN [db EXCEPT ![auth.agent_id].last_seen_at = c]
    ELSE db

CheckinCountsReport(db, c, req) ==
    LET auth == _authenticate_agent(db, c, req) IN
    IF auth.error = "None"
    THEN [db EXCEPT ![auth.agent_id].total_reports = @ + 1]
    ELSE db

\* the agents table after checkin: the handler reads it (get_agent,
\* list_agents) and makes no write
CheckinWrites(db, c, req) == db

\* POST /agents/checkin
Checkin(req) ==
    /\ resp' = checkin(agents, clock, req)
    /\ agents' = CheckinWrites(agents, clock, req)
    /\ last' = Call("checkin", req, NoFault)
    /\ UNCHANGED <<clock, vehicles, positions, realtime>>

HandleReportUnlessPaused(req, fault) ==
    /\ IF _authenticate_agent(agents, clock, req).error = "None" /\ BodyParses(req.body)
       THEN FaultApplies(req.body, fault)
       ELSE fault = NoFault
    /\ LET out == report(agents, vehicles, positions, realtime, clock, req, fault)
           off == "st_johns" \in paused
       IN  /\ resp' = out.resp
           /\ agents' = IF off THEN agents ELSE out.agents
           /\ vehicles' = IF off THEN vehicles ELSE out.vehicles
           /\ positions' = IF off THEN positions ELSE out.positions
           /\ realtime' = IF off THEN realtime ELSE out.realtime
    /\ last' = Call("report", req, fault)
    /\ UNCHANGED clock

\* POST /agents/report; fault is where its processing raises, if it does
HandleReport(req, fault) ==
    /\ IF _authenticate_agent(agents, clock, req).error = "None" /\ BodyParses(req.body)
       THEN FaultApplies(req.body, fault)
       ELSE fault = NoFault
    /\ LET out == report(agents, vehicles, positions, realtime, clock, req, fault) IN
       /\ resp' = out.resp
       /\ agents' = out.agents
       /\ vehicles' = out.vehicles
       /\ positions' = out.positions
       /\ realtime' = out.realtime
    /\ last' = Call("report", req, fault)
    /\ UNCHANGED clock

\* the reports of a run, at most MaxReports of them from an authenticated agent
Report(req, fault) ==
    /\ _authenticate_agent(agents, clock, req).error = "None" => ReportsHandled < MaxReports
    /\ HandleReport(req, fault)

(***************************************************************************)
(* The requests agents (and strangers) send.                                *)
(***************************************************************************)
KeyOfId(agent_id) == CHOOSE k \in Keys : agent_id_from_public_key(k) = agent_id

\* a request for agent_id, stamped ts and signed with the key signer
Signed(agent_id, signer, ts, body) ==
    Request(Header(agent_id), Header(ts), sign_payload(PrivatePem(signer), body, ts), body)

\* the sender's str(int(time.time())), its clock skew seconds off the server's
Stamp(c, skew) == IntToStr(IntTime(c) + skew)

\* the skews of a sender's clock, in seconds
Skews == {0 - MAX_SKEW - 1, 0 - MAX_SKEW, 0, MAX_SKEW, MAX_SKEW + 1}

\* requests that fail for a header or for the signature, whoever sends them
MalformedRequests(c, agent_id, body) ==
    LET now == Stamp(c, 0)
        key == KeyOfId(agent_id)
    IN  {Request(NoHeader, Header(now), sign_payload(PrivatePem(key), body, now), body),
         Request(Header(agent_id), Header(<<>>), sign_payload(PrivatePem(key), body, <<>>), body),
         Request(Header(agent_id), Header(now), EmptySig, body),
         Signed(agent_id, key, <<"s", "o", "o", "n">>, body),
         Request(Header(agent_id), Header(now), GarbageSig, body),
         Request(Header(agent_id), Header(now), sign_payload(PrivatePem(key), body, Stamp(c, 1)), body),
         Request(Header(agent_id), Header(now), sign_payload(PrivatePem(key), JsonListBody, now), body)}

\* requests in the name of each of ids, signed by each of signers, at every skew
StampedRequests(c, ids, signers, body) ==
    {Signed(id, k, Stamp(c, d), body) : id \in ids, k \in signers, d \in Skews}

IdA == agent_id_from_public_key("kA")
IdB == agent_id_from_public_key("kB")
IdX == agent_id_from_public_key("kX")

(***************************************************************************)
(* Spec: the registry's life with two agents that check in and report.      *)
(* Every request is stamped with the server's own second, so the clock      *)
(* stands still here; SpecAuth is where time passes.                        *)
(***************************************************************************)
CheckinRequests(c) ==
    {Signed(id, KeyOfId(id), Stamp(c, 0), EmptyBody) : id \in AgentIds}
        \cup {Signed(IdA, "kX", Stamp(c, 0), EmptyBody)}

ReportRequests(c) ==
    {Signed(IdA, "kA", Stamp(c, 0), b) :
        b \in {HtmlBody, AvlBody(<<Feature(1, 1000, TRUE)>>)}}
        \cup {Signed(IdB, "kB", Stamp(c, 0), HtmlBody),
              Signed(IdA, "kX", Stamp(c, 0), HtmlBody)}

SchedIdle ==
    /\ schedIds = <<>>
    /\ schedTarget = TARGET_INTERVAL
    /\ schedule = <<>>
    /\ schedPc = "off"
    /\ simTime = 0
    /\ nextFetch = <<>>
    /\ fetched = <<>>

\* no source is enabled: collector.run starts no task
CollectorIdle ==
    /\ paused = {}
    /\ pollPc = <<>>

\* no run_migrations call is modelled: the schema is as the code left it
MigrateIdle ==
    /\ migrations_dir = {}
    /\ schema_version = <<>>
    /\ migPc = "idle"
    /\ pending = <<>>
    /\ applied = <<>>
    /\ migRuns = 0

Init == ServerInit /\ SchedIdle /\ CollectorIdle /\ MigrateIdle

Next ==
    \/ \E body \in {b \in RegistrationBodies(AgentKeys) : b.name = "plow-1"} :
          agent_register(body) /\ UNCHANGED <<schedVars, collectorVars, settingsVars, migrateVars>>
    \/ \E t \in AdminTokens, k \in AgentKeys :
          create_agent_route(t, k) /\ UNCHANGED <<schedVars, collectorVars, settingsVars, migrateVars>>
    \/ \E t \in AdminTokens, a \in {IdA, IdB} :
          approve_agent_route(t, a) /\ UNCHANGED <<schedVars, collectorVars, settingsVars, migrateVars>>
    \/ \E t \in AdminTokens, a \in {IdA, IdB} :
          revoke_agent_route(t, a) /\ UNCHANGED <<schedVars, collectorVars, settingsVars, migrateVars>>
    \/ \E req \in CheckinRequests(clock) : Checkin(req) /\ UNCHANGED <<schedVars, collectorVars, settingsVars, migrateVars>>
    \/ \E req \in ReportRequests(clock) :
          Report(req, NoFault) /\ UNCHANGED <<schedVars, collectorVars, settingsVars, migrateVars>>

Spec == Init /\ [][Next]_vars

(***************************************************************************)
(* SpecReport: one agent that reports every kind of body, and processing    *)
(* that may raise at any step.                                              *)
(***************************************************************************)
AnyBodyReports(c) ==
    {Signed(IdA, "kA", Stamp(c, 0), b) : b \in Bodies}
        \cup {Signed(IdA, "kX", Stamp(c, 0), HtmlBody)}

ReportNext ==
    \/ \E body \in {b \in RegistrationBodies({"kA"}) : b.name = "plow-1"} :
          agent_register(body) /\ UNCHANGED <<schedVars, collectorVars, settingsVars, migrateVars>>
    \/ create_agent_route(Cookie("secret"), "kA") /\ UNCHANGED <<schedVars, collectorVars, settingsVars, migrateVars>>
    \/ approve_agent_route(Cookie("secret"), IdA) /\ UNCHANGED <<schedVars, collectorVars, settingsVars, migrateVars>>
    \/ revoke_agent_route(Cookie("secret"), IdA) /\ UNCHANGED <<schedVars, collectorVars, settingsVars, migrateVars>>
    \/ Checkin(Signed(IdA, "kA", Stamp(clock, 0), EmptyBody)) /\ UNCHANGED <<schedVars, collectorVars, settingsVars, migrateVars>>
    \/ \E req \in AnyBodyReports(clock), fault \in Faults :
          Report(req, fault) /\ UNCHANGED <<schedVars, collectorVars, settingsVars, migrateVars>>

SpecReport == Init /\ [][ReportNext]_vars

(***************************************************************************)
(* SpecAuth: one agent key and a stranger's, and requests that are wrong    *)
(* in every way the authenticator checks.                                   *)
(***************************************************************************)
AuthCheckinRequests(c) ==
    StampedRequests(c, {IdA, IdX}, {"kA", "kX"}, EmptyBody)
        \cup MalformedRequests(c, IdA, EmptyBody)

AuthReportRequests(c) ==
    StampedRequests(c, {IdA, IdX}, {"kA", "kX"}, HtmlBody)
        \cup MalformedRequests(c, IdA, HtmlBody)

AuthNext ==
    \/ Tick /\ UNCHANGED <<schedVars, collectorVars, settingsVars, migrateVars>>
    \/ \E body \in {b \in RegistrationBodies({"kA"}) : b.name # "plow-2"} :
          agent_register(body) /\ UNCHANGED <<schedVars, collectorVars, settingsVars, migrateVars>>
    \/ create_agent_route(Cookie("secret"), "kA") /\ UNCHANGED <<schedVars, collectorVars, settingsVars, migrateVars>>
    \/ approve_agent_route(Cookie("secret"), IdA) /\ UNCHANGED <<schedVars, collectorVars, settingsVars, migrateVars>>
    \/ revoke_agent_route(Cookie("secret"), IdA) /\ UNCHANGED <<schedVars, collectorVars, settingsVars, migrateVars>>
    \/ \E req \in AuthCheckinRequests(clock) : Checkin(req) /\ UNCHANGED <<schedVars, collectorVars, settingsVars, migrateVars>>
    \/ \E req \in AuthReportRequests(clock) :
          Report(req, NoFault) /\ UNCHANGED <<schedVars, collectorVars, settingsVars, migrateVars>>

SpecAuth == Init /\ [][AuthNext]_vars

(***************************************************************************)
(* SpecRegistry: the records of two agents under every registry operation, *)
(* with time passing between the calls.                                    *)
(***************************************************************************)
RegistryReports(c) ==
    {Signed(IdA, "kA", Stamp(c, 0), b) :
        b \in {HtmlBody, AvlBody(<<Feature(1, 1000, TRUE)>>)}}
        \cup {Signed(IdB, "kB", Stamp(c, 0), HtmlBody)}

RegistryRegistrations ==
    {b \in RegistrationBodies({"kA"}) : b.name # ""}
        \cup {b \in RegistrationBodies({"kB"}) : b.name = "plow-1" /\ b.public_key = "kB"}
        \cup {b \in RegistrationBodies({"kA-crlf"}) :
                b.name = "plow-1" /\ b.public_key = "kA-crlf"}

RegistryNext ==
    \/ Tick /\ UNCHANGED <<schedVars, collectorVars, settingsVars, migrateVars>>
    \/ \E body \in RegistryRegistrations :
          agent_register(body) /\ UNCHANGED <<schedVars, collectorVars, settingsVars, migrateVars>>
    \/ \E t \in {NoCookie, Cookie("secret")} :
          create_agent_route(t, "kB") /\ UNCHANGED <<schedVars, collectorVars, settingsVars, migrateVars>>
    \/ \E a \in AgentIds :
          approve_agent_route(Cookie("secret"), a) /\ UNCHANGED <<schedVars, collectorVars, settingsVars, migrateVars>>
    \/ \E a \in {IdA, IdB} :
          revoke_agent_route(Cookie("secret"), a) /\ UNCHANGED <<schedVars, collectorVars, settingsVars, migrateVars>>
    \/ \E req \in CheckinRequests(clock) :
          Checkin(req) /\ UNCHANGED <<schedVars, collectorVars, settingsVars, migrateVars>>
    \/ \E req \in RegistryReports(clock) :
          Report(req, NoFault) /\ UNCHANGED <<schedVars, collectorVars, settingsVars, migrateVars>>

SpecRegistry == Init /\ [][RegistryNext]_vars

(***************************************************************************)
(* collector.py: one poll_source task per enabled source. A task awaits    *)
(* fetch_source or is at the top of its loop (asleep there until the next   *)
(* cycle); the code between two awaits runs without interleaving.           *)
(***************************************************************************)
\* the threshold default of _should_skip_direct_fetch, in seconds
SKIP_THRESHOLD == 30

\* SOURCES: the parser of each source
ParserOf(source) ==
    CASE source = "st_johns" -> "avl"
      [] source \in {"mt_pearl", "provincial"} -> "aatracking"

\* the sources whose enabled setting is on (provincial is switched off)
EnabledSources == {"st_johns", "mt_pearl"}

\* an age: None, or a time span in ticks
NoAge == <<>>
Age(ticks) == <<ticks>>

ShouldSkipStrictlyYounger(last_agent_report_age) ==
    IF last_agent_report_age = NoAge THEN FALSE
    ELSE last_agent_report_age[1] < SKIP_THRESHOLD * TicksPerSecond

_should_skip_direct_fetch(last_agent_report_age) ==
    IF last_agent_report_age = NoAge THEN FALSE
    ELSE last_agent_report_age[1] <= SKIP_THRESHOLD * TicksPerSecond

_is_source_paused(store_paused, source_name) ==
    IF store_paused = {} THEN FALSE ELSE source_name \in store_paused

\* the agents poll_source calls active: approved, with a last_seen_at
ActiveAgents(db) ==
    {a \in DOMAIN db : db[a].status = "approved" /\ db[a].last_seen_at # NeverSeen}

AgentsCoverFetchFailsClosed(db, c, check_raises) ==
    IF check_raises THEN TRUE
    ELSE IF ActiveAgents(db) = {} THEN FALSE
    ELSE LET most_recent ==
                 CHOOSE t \in {db[a].last_seen_at : a \in ActiveAgents(db)} :
                     \A a \in ActiveAgents(db) : db[a].last_seen_at <= t
         IN  _should_skip_direct_fetch(Age(c - most_recent))

\* the agent check of an avl cycle; when the check raises the cycle goes on
\* to the direct fetch
AgentsCoverFetch(db, c, check_raises) ==
    IF check_raises \/ ActiveAgents(db) = {} THEN FALSE
    ELSE LET most_recent ==
                 CHOOSE t \in {db[a].last_seen_at : a \in ActiveAgents(db)} :
                     \A a \in ActiveAgents(db) : db[a].last_seen_at <= t
         IN  _should_skip_direct_fetch(Age(c - most_recent))

CycleOutcomeIgnoresPause(db, store_paused, c, source, check_raises) ==
    IF ParserOf(source) = "avl" /\ AgentsCoverFetch(db, c, check_raises)
    THEN "agents_active"
    ELSE "fetch"

\* the head of the loop body: paused, skipped for the agents, or on to the fetch
CycleOutcome(db, store_paused, c, source, check_raises) ==
    IF _is_source_paused(store_paused, source) THEN "paused"
    ELSE IF ParserOf(source) = "avl" /\ AgentsCoverFetch(db, c, check_raises)
    THEN "agents_active"
    ELSE "fetch"

\* what a step of the poll loop did: the outcome and the rows it inserted
PollBody(source, outcome, inserted) ==
    [kind |-> "poll", code |-> 0, source |-> source, outcome |-> outcome,
     inserted |-> inserted]

PollRequest(source, check_raises, response) ==
    [source |-> source, response |-> response, check_raises |-> check_raises]

\* an AATracking item; a missing VEH_EVENT_DATETIME is NoDatetime
NoDatetime == -1
AATrackingItem(veh_id, datetime, valid) ==
    [valid |-> valid, VEH_ID |-> veh_id, VEH_EVENT_DATETIME |-> datetime]

AATrackingBody(items) == [kind |-> "json_items", items |-> items]

\* the request failed: a timeout, or raise_for_status
FetchError == [kind |-> "fetch_error"]

\* parse_aatracking_response: items that fail validation are skipped
AATrackingPositions(data, collected_at) ==
    LET Valid(item) == item.valid
        kept == SelectSeq(data.items, Valid)
    IN  [i \in DOMAIN kept |->
            [timestamp |-> IF kept[i].VEH_EVENT_DATETIME = NoDatetime
                           THEN collected_at
                           ELSE kept[i].VEH_EVENT_DATETIME,
             vehicle_id |-> kept[i].VEH_ID]]

AATrackingVehicles(data) ==
    LET Valid(item) == item.valid
        kept == SelectSeq(data.items, Valid)
    IN  [i \in DOMAIN kept |-> kept[i].VEH_ID]

\* process_poll: whether it raised, the tables it leaves, the count it returns
process_poll(veh0, pos0, response, c, source, parser) ==
    LET raised == \/ parser \notin {"avl", "aatracking"}
                  \/ parser = "avl" /\ ~AvlValid(response)
        vlist == IF parser = "avl" THEN AvlVehicles(response)
                 ELSE AATrackingVehicles(response)
        plist == IF parser = "avl" THEN AvlPositions(response)
                 ELSE AATrackingPositions(response, c)
    IN  IF raised
        THEN [vehicles |-> veh0, positions |-> pos0, raised |-> TRUE, inserted |-> 0]
        ELSE [vehicles |-> upsert_vehicles(veh0, vlist, Len(vlist), source),
              positions |-> insert_positions(pos0, plist, Len(plist), c, source),
              raised |-> FALSE,
              inserted |-> inserted_count(pos0, plist, c, source)]

\* Where a poll_source task is: "top" before its first step, then the await
\* it is suspended at: "sleep_paused" (the sleep of a paused cycle),
\* "sleep_skipped" (the sleep of a cycle skipped for active agents),
\* "fetching" (fetch_source) or "sleep_end" (the sleep that ends a cycle);
\* "cancelled" and "crashed" once an exception has left the coroutine.
SleepPcs == {"sleep_paused", "sleep_skipped", "sleep_end"}

\* the exceptions raised in a task: asyncio.CancelledError thrown at its await
\* by a cancel, and the errors of a fetch, a parse or a store
CancelledError == "CancelledError"
PollError == "Exception"

CancelledIsException(exc) == TRUE

\* issubclass(type(exc), Exception): CancelledError derives from BaseException
IsException(exc) == exc # CancelledError

ClausesFetchOnlyCancelled(pc) ==
    CASE pc = "sleep_skipped" -> <<[catches |-> "Exception", then |-> "pass"]>>
      [] pc = "fetching" -> <<[catches |-> "CancelledError", then |-> "raise"]>>
      [] OTHER -> <<>>

\* the except clauses of the try statement around each await, in their order
ExceptClauses(pc) ==
    CASE pc = "sleep_skipped" -> <<[catches |-> "Exception", then |-> "pass"]>>
      [] pc = "fetching" -> <<[catches |-> "CancelledError", then |-> "raise"],
                              [catches |-> "Exception", then |-> "log"]>>
      [] OTHER -> <<>>

ClauseCatches(clause, exc) ==
    IF clause.catches = "CancelledError" THEN exc = CancelledError
    ELSE IsException(exc)

\* where the task is once exc has been raised at pc: the first clause that
\* catches it decides; uncaught or re-raised, it leaves the coroutine
AfterRaise(pc, exc) ==
    LET clauses == ExceptClauses(pc)
        hits == {i \in DOMAIN clauses : ClauseCatches(clauses[i], exc)}
        first == CHOOSE i \in hits : \A j \in hits : i <= j
    IN  IF hits = {} \/ clauses[first].then = "raise"
        THEN IF exc = CancelledError THEN "cancelled" ELSE "crashed"
        ELSE IF clauses[first].then = "pass" THEN "fetching"
        ELSE "sleep_end"

\* the suspension point a cycle with this outcome reaches
AfterCycle(outcome) ==
    CASE outcome = "paused" -> "sleep_paused"
      [] outcome = "agents_active" -> "sleep_skipped"
      [] outcome = "fetch" -> "fetching"

\* the task's first step, or its waking from a sleep: the loop body up to
\* the next await: the pause check, then for an avl source the agent check,
\* then the call of fetch_source
PollCycle(source, check_raises) ==
    /\ source \in DOMAIN pollPc
    /\ pollPc[source] \in {"top"} \cup SleepPcs
    /\ check_raises => (~_is_source_paused(paused, source) /\ ParserOf(source) = "avl")
    /\ LET outcome == CycleOutcome(agents, paused, clock, source, check_raises) IN
       /\ pollPc' = [pollPc EXCEPT ![source] = AfterCycle(outcome)]
       /\ resp' = PollBody(source, outcome, 0)
    /\ last' = Call("cycle", PollRequest(source, check_raises, FetchError), NoFault)
    /\ UNCHANGED <<agents, clock, vehicles, positions, realtime, paused>>

PollSnapshotWipedOnFailure(rt0, veh, pos, source, raised) ==
    [s \in DOMAIN rt0 \cup {source} |->
        IF s # source THEN rt0[s]
        ELSE IF raised THEN {}
        ELSE build_realtime_snapshot(veh, pos, source)]

\* store["realtime"][source_config.name] = build_realtime_snapshot(db, source):
\* the last statement of the try block, not reached when a statement before
\* it raised, nor assigned when the build raises
PollSnapshot(rt0, veh, pos, source, raised) ==
    IF raised THEN rt0
    ELSE [s \in DOMAIN rt0 \cup {source} |->
            IF s = source THEN build_realtime_snapshot(veh, pos, source)
            ELSE rt0[s]]

\* fetch_source returns or raises; the response is processed, the snapshot
\* rebuilt, and the task sleeps until its next cycle
FetchReturns(source, response) ==
    /\ source \in DOMAIN pollPc
    /\ pollPc[source] = "fetching"
    /\ pollPc' = [pollPc EXCEPT ![source] =
                     IF \/ response = FetchError
                        \/ process_poll(vehicles, positions, response, clock,
                                        source, ParserOf(source)).raised
                     THEN AfterRaise("fetching", PollError)
                     ELSE "sleep_end"]
    /\ last' = Call("fetched", PollRequest(source, FALSE, response), NoFault)
    /\ UNCHANGED <<agents, clock, paused>>
    /\ IF response = FetchError
       THEN /\ resp' = PollBody(source, "failed", 0)
            /\ UNCHANGED <<vehicles, positions>>
            /\ realtime' = PollSnapshot(realtime, vehicles, positions, source, TRUE)
       ELSE LET pp == process_poll(vehicles, positions, response, clock,
                                   source, ParserOf(source)) IN
            /\ resp' = IF pp.raised THEN PollBody(source, "failed", 0)
                       ELSE PollBody(source, "stored", pp.inserted)
            /\ vehicles' = pp.vehicles
            /\ positions' = pp.positions
            /\ realtime' = PollSnapshot(realtime, pp.vehicles, pp.positions, source,
                                        pp.raised)

\* the lists the source's parser hands to the store
PollLists(response, c, parser) ==
    IF parser = "avl"
    THEN [vehicles |-> AvlVehicles(response), positions |-> AvlPositions(response)]
    ELSE [vehicles |-> AATrackingVehicles(response),
          positions |-> AATrackingPositions(response, c)]

\* the steps of a poll's processing at which the store can raise, after how
\* many rows: upsert_vehicles in its loop, insert_positions at its first
\* count, in its loop or at its last count, build_realtime_snapshot at its
\* query
PollFaults(response, c, parser) ==
    LET lists == PollLists(response, c, parser) IN
    {f \in Faults :
        /\ ~f.lasting
        /\ \/ f.step = "upsert" /\ f.k < Len(lists.vehicles)
           \/ f.step = "insert" /\ lists.positions # <<>> /\ f.k <= Len(lists.positions)
           \/ f.step = "snapshot"}

\* fetch_source returned a payload the parser accepts, and a call of the
\* store raises while it is processed: the rows written before it stay (no
\* transaction is open), the snapshot is not assigned, except Exception
\* logs, and the task sleeps until its next cycle
FetchFaults(source, response, fault) ==
    /\ source \in DOMAIN pollPc
    /\ pollPc[source] = "fetching"
    /\ response # FetchError
    /\ ~process_poll(vehicles, positions, response, clock, source, ParserOf(source)).raised
    /\ fault \in PollFaults(response, clock, ParserOf(source))
    /\ LET lists == PollLists(response, clock, ParserOf(source))
           nUp == IF fault.step = "upsert" THEN fault.k ELSE Len(lists.vehicles)
           nIns == CASE fault.step = "upsert" -> 0
                     [] fault.step = "insert" -> fault.k
                     [] OTHER -> Len(lists.positions)
       IN  /\ vehicles' = upsert_vehicles(vehicles, lists.vehicles, nUp, source)
           /\ positions' = insert_positions(positions, lists.positions, nIns, clock, source)
           /\ realtime' = PollSnapshot(realtime, vehicles', positions', source, TRUE)
    /\ pollPc' = [pollPc EXCEPT ![source] = AfterRaise("fetching", PollError)]
    /\ resp' = PollBody(source, "failed", 0)
    /\ last' = Call("fetched", PollRequest(source, FALSE, response), fault)
    /\ UNCHANGED <<agents, clock, paused>>

\* the body and the cookie of POST /admin/collector/pause and /resume
CollectorPauseRequest(admin_token, source) ==
    [source |-> source, admin_token |-> admin_token]

ResumedSetCleared(store_paused, source) == {}

\* paused = store.get("collector_paused", set()); paused.discard(body.source)
ResumedSet(store_paused, source) == store_paused \ {source}

\* POST /admin/collector/pause
pause_collector(admin_token, source) ==
    LET gate == AdminGate(admin_password, admin_token) IN
    /\ last' = Call("pause", CollectorPauseRequest(admin_token, source), NoFault)
    /\ UNCHANGED <<agents, clock, vehicles, positions, realtime, pollPc>>
    /\ IF gate # "ok"
       THEN resp' = AdminRefusal(gate) /\ paused' = paused
       ELSE paused' = paused \cup {source} /\ resp' = PausedBody(paused')

\* POST /admin/collector/resume
resume_collector(admin_token, source) ==
    LET gate == AdminGate(admin_password, admin_token) IN
    /\ last' = Call("resume", CollectorPauseRequest(admin_token, source), NoFault)
    /\ UNCHANGED <<agents, clock, vehicles, positions, realtime, pollPc>>
    /\ IF gate # "ok"
       THEN resp' = AdminRefusal(gate) /\ paused' = paused
       ELSE paused' = ResumedSet(paused, source) /\ resp' = PausedBody(paused')

\* GET /admin/status
admin_status(admin_token) ==
    LET gate == AdminGate(admin_password, admin_token)
        listed == list_agents(agents)
        Active(a) == agents[a].status = "approved" /\ agents[a].last_seen_at # NeverSeen
    IN  /\ last' = Call("status", CollectorPauseRequest(admin_token, ""), NoFault)
        /\ UNCHANGED <<agents, clock, vehicles, positions, realtime, paused, pollPc>>
        /\ resp' = IF gate # "ok" THEN AdminRefusal(gate)
                   ELSE AdminStatusBody(Len(listed), Len(SelectSeq(listed, Active)),
                                        paused)

(***************************************************************************)
(* SpecCollector: the poll loops of two sources beside one agent that       *)
(* reports, an admin who pauses and resumes, and a clock that moves just to *)
(* and just past the skip threshold.                                        *)
(***************************************************************************)
CollectorTimes ==
    {40 * TicksPerSecond,
     (40 + SKIP_THRESHOLD) * TicksPerSecond,
     (40 + SKIP_THRESHOLD) * TicksPerSecond + 1}

\* what upstream serves: for the avl source what agents report too
PollResponses(source) ==
    IF ParserOf(source) = "avl"
    THEN {AvlBody(<<Feature(1, 1000, TRUE)>>),
          AvlBody(<<Feature(1, 1000, TRUE), Feature(2, 1000, FALSE)>>),
          FetchError}
    ELSE {AATrackingBody(<<AATrackingItem(1, 1000 + NST_CORRECTION_MS, TRUE),
                            AATrackingItem(2, NoDatetime, FALSE)>>),
          AATrackingBody(<<AATrackingItem(2, NoDatetime, TRUE)>>)}

\* collector.run: store["realtime"] = {} and a task per enabled source
CollectorInit ==
    /\ ServerInit
    /\ SchedIdle
    /\ MigrateIdle
    /\ paused = {}
    /\ pollPc = [s \in EnabledSources |-> "top"]

CollectorNext ==
    \/ TickWithin(CollectorTimes) /\ UNCHANGED <<schedVars, collectorVars, settingsVars, migrateVars>>
    \/ agent_register([kind |-> "object", public_key |-> "kA", name |-> "plow-1"])
          /\ UNCHANGED <<schedVars, collectorVars, settingsVars, migrateVars>>
    \/ approve_agent_route(Cookie("secret"), IdA) /\ UNCHANGED <<schedVars, collectorVars, settingsVars, migrateVars>>
    \/ revoke_agent_route(Cookie("secret"), IdA) /\ UNCHANGED <<schedVars, collectorVars, settingsVars, migrateVars>>
    \/ Report(Signed(IdA, "kA", Stamp(clock, 0), HtmlBody), NoFault)
          /\ UNCHANGED <<schedVars, collectorVars, settingsVars, migrateVars>>
    \/ \E s \in EnabledSources :
          pause_collector(Cookie("secret"), s) /\ UNCHANGED <<schedVars, settingsVars, migrateVars>>
    \/ \E s \in EnabledSources :
          resume_collector(Cookie("secret"), s) /\ UNCHANGED <<schedVars, settingsVars, migrateVars>>
    \/ \E s \in EnabledSources, check_raises \in BOOLEAN :
          PollCycle(s, check_raises) /\ UNCHANGED <<schedVars, settingsVars, migrateVars>>
    \/ \E s \in EnabledSources :
          \E response \in {FetchError, CHOOSE r \in PollResponses(s) : r # FetchError} :
              FetchReturns(s, response) /\ UNCHANGED <<schedVars, settingsVars, migrateVars>>

SpecCollector == CollectorInit /\ [][CollectorNext]_vars

(***************************************************************************)
(* SpecIngest: positions arriving by both paths, the direct polls of two    *)
(* sources and the reports of an agent, again and again as time passes.     *)
(***************************************************************************)
IngestReports(c) ==
    {Signed(IdA, "kA", Stamp(c, 0), AvlBody(f)) :
        f \in {<<Feature(1, 1000, TRUE)>>,
               <<Feature(1, 1000, TRUE), Feature(2, 1000, TRUE)>>}}

IngestNext ==
    \/ Tick /\ UNCHANGED <<schedVars, collectorVars, settingsVars, migrateVars>>
    \/ create_agent_route(Cookie("secret"), "kA") /\ UNCHANGED <<schedVars, collectorVars, settingsVars, migrateVars>>
    \/ \E req \in IngestReports(clock) :
          Report(req, NoFault) /\ UNCHANGED <<schedVars, collectorVars, settingsVars, migrateVars>>
    \/ \E s \in EnabledSources : PollCycle(s, FALSE) /\ UNCHANGED <<schedVars, settingsVars, migrateVars>>
    \/ \E s \in EnabledSources :
          \E response \in PollResponses(s) :
              FetchReturns(s, response) /\ UNCHANGED <<schedVars, settingsVars, migrateVars>>

SpecIngest == CollectorInit /\ [][IngestNext]_vars

(***************************************************************************)
(* The schedule followed by a fixed set of agents: each fetches at         *)
(* offset_seconds + k * interval_seconds.                                  *)
(***************************************************************************)
\* agent ids of the timeline: strings over a two-letter alphabet
SchedIdPool == {<<1>>, <<1, 2>>, <<2>>, <<2, 1>>}

SchedTargets == {1, 2, TARGET_INTERVAL}

SchedLists ==
    {s \in UNION {[1..n -> SchedIdPool] : n \in 0..MaxSchedAgents} : NoDup(s)}

SchedInit ==
    /\ ServerInit
    /\ CollectorIdle
    /\ MigrateIdle
    /\ schedIds \in SchedLists
    /\ schedTarget \in SchedTargets
    /\ schedule = <<>>
    /\ schedPc = "input"
    /\ simTime = 0
    /\ nextFetch = <<>>
    /\ fetched = <<>>

\* the server computes the schedule and every agent adopts its own entry
ComputeSchedule ==
    /\ schedPc = "input"
    /\ schedule' = compute_schedule(schedIds, schedTarget)
    /\ nextFetch' = [a \in DOMAIN schedule' |-> schedule'[a].offset_seconds]
    /\ fetched' = [i \in {0} |-> {}]
    /\ schedPc' = "running"
    /\ UNCHANGED <<schedIds, schedTarget, simTime>>

\* an agent whose fetch is due at this instant fetches
AgentFetch(a) ==
    /\ schedPc = "running"
    /\ a \in DOMAIN nextFetch
    /\ nextFetch[a] = simTime
    /\ fetched' = [fetched EXCEPT ![simTime] = @ \cup {a}]
    /\ nextFetch' = [nextFetch EXCEPT ![a] = @ + schedule[a].interval_seconds]
    /\ UNCHANGED <<schedIds, schedTarget, schedule, schedPc, simTime>>

\* a second passes once every fetch due now has been made
SchedTick ==
    /\ schedPc = "running"
    /\ simTime < MaxSimTime
    /\ \A a \in DOMAIN nextFetch : nextFetch[a] > simTime
    /\ simTime' = simTime + 1
    /\ fetched' = [i \in 0..(simTime + 1) |-> IF i <= simTime THEN fetched[i] ELSE {}]
    /\ UNCHANGED <<schedIds, schedTarget, schedule, schedPc, nextFetch>>

SchedNext ==
    \/ ComputeSchedule /\ UNCHANGED <<serverVars, collectorVars, settingsVars, migrateVars>>
    \/ \E a \in SchedIdPool : AgentFetch(a) /\ UNCHANGED <<serverVars, collectorVars, settingsVars, migrateVars>>
    \/ SchedTick /\ UNCHANGED <<serverVars, collectorVars, settingsVars, migrateVars>>

SpecSched == SchedInit /\ [][SchedNext]_vars

(***************************************************************************)
(* The schedule calculator's claims (checked under SpecSched).             *)
(***************************************************************************)
\* a is before b in lexicographic order, stated without recursion: they agree
\* on a prefix after which a ends first or has the smaller character
LexBefore(a, b) ==
    \E k \in 0..Len(a) :
        /\ k <= Len(b)
        /\ \A i \in 1..k : a[i] = b[i]
        /\ \/ k = Len(a) /\ k < Len(b)
           \/ k < Len(a) /\ k < Len(b) /\ a[k + 1] < b[k + 1]

\* the number of fetches the upstream received in the seconds w .. w + len - 1
FetchesInWindow(w, len) ==
    Cardinality({p \in (w..(w + len - 1)) \X Range(schedIds) :
                    p[1] \in DOMAIN fetched /\ p[2] \in fetched[p[1]]})

\* C1: when n >= 1 agents fetch at offset_seconds + k * interval_seconds, no
\* two agents fetch at the same instant and every window of target_interval
\* seconds that has fully elapsed holds exactly one fetch.
C1_OneFetchPerWindow ==
    (schedPc = "running" /\ schedIds # <<>>) =>
        /\ \A i \in DOMAIN fetched : Cardinality(fetched[i]) <= 1
        /\ \A w \in 0..simTime :
              w + schedTarget <= simTime => FetchesInWindow(w, schedTarget) = 1

\* three agents at the default target interval have each fetched twice
C1_Witness ==
    /\ schedPc = "running"
    /\ Len(schedIds) = 3
    /\ schedTarget = TARGET_INTERVAL
    /\ \A a \in Range(schedIds) :
          Cardinality({i \in DOMAIN fetched : a \in fetched[i]}) >= 2

\* C2: for a non-empty set S of agent ids compute_schedule gives every agent
\* interval_seconds = T * |S| and offset_seconds = T * (its 0-based rank in
\* lexicographic order), so offsets are pairwise different; for the empty
\* set it returns the empty map.
C2_ScheduleShape ==
    schedPc = "running" =>
        LET S == Range(schedIds) IN
        /\ DOMAIN schedule = S
        /\ schedIds = <<>> => schedule = <<>>
        /\ \A a \in S :
              /\ schedule[a].interval_seconds = schedTarget * Cardinality(S)
              /\ schedule[a].offset_seconds =
                    schedTarget * Cardinality({b \in S : LexBefore(b, a)})
        /\ \A a, b \in S :
              a # b => schedule[a].offset_seconds # schedule[b].offset_seconds

\* a schedule for three agents given out of order, and one for no agent
C2_Witness ==
    /\ schedPc = "running"
    /\ Len(schedIds) = 3
    /\ StrLess(schedIds[2], schedIds[1])
    /\ schedule[schedIds[1]].offset_seconds > schedule[schedIds[2]].offset_seconds

(***************************************************************************)
(* The claims about checkin and report.  last is the request the latest     *)
(* step handled and resp its answer; neither handler changes an agent's     *)
(* status or the clock, so both are those the request met.                  *)
(***************************************************************************)
Handled == last.op \in {"checkin", "report"}

Approved == {a \in DOMAIN agents : agents[a].status = "approved"}

\* the request's X-Agent-Id names a registered agent with one of the statuses
SentBy(req, statuses) ==
    /\ Truthy(req.id)
    /\ req.id.val \in DOMAIN agents
    /\ agents[req.id.val].status \in statuses

\* the five conditions of the authenticator, each stated on its own
HeadersPresent(req) == req.id.present /\ req.id.val # <<>>
                       /\ req.ts.present /\ req.ts.val # <<>>
                       /\ req.sig.kind \in {"garbage", "signed"}

Numeric(ts) == ParseInt(ts).ok

Fresh(ts) ==
    /\ Numeric(ts)
    /\ IntTime(clock) - ParseInt(ts).val <= MAX_SKEW
    /\ ParseInt(ts).val - IntTime(clock) <= MAX_SKEW

Known(req) == req.id.val \in DOMAIN agents

SignatureVerifies(req) ==
    /\ req.sig.kind = "signed"
    /\ req.sig.signer = load_pem_public_key(agents[req.id.val].public_key)
    /\ req.sig.digest = BodyBytes(req.body) \o req.ts.val

\* C3: the schedule in every checkin or report response is that of the agents
\* approved at the moment of the request: interval 6 * (their number), offset
\* 6 * (the caller's rank among them); a schedule for another membership is
\* never returned.
C3_ScheduleFromLiveMembership ==
    (Handled /\ resp.kind = "schedule") =>
        LET me == last.req.id.val IN
        /\ me \in Approved
        /\ resp.interval_seconds = TARGET_INTERVAL * Cardinality(Approved)
        /\ resp.offset_seconds =
              TARGET_INTERVAL * Cardinality({b \in Approved : LexBefore(b, me)})

\* the agent that sorts last is alone after the other was revoked, and its
\* checkin gives it the whole cycle at offset 0
C3_Witness ==
    /\ last.op = "checkin"
    /\ last.req.id.val = IdA
    /\ IdB \in DOMAIN agents /\ agents[IdB].status = "revoked"
    /\ LexBefore(IdB, IdA)
    /\ resp = ScheduleBody(TARGET_INTERVAL, 0)

(***************************************************************************)
(* The authenticator's claims (checked under SpecAuth).                     *)
(***************************************************************************)
\* C4: the authenticator checks, in this order, the three headers, the
\* timestamp's freshness, that the agent is known, its status and the
\* signature; the first check that fails decides the rejection (401 for all
\* but the status, 403 for the status), and a request is served only when
\* all five pass.
C4_FirstFailingCheckDecides ==
    Handled =>
        LET r == last.req IN
        /\ ~HeadersPresent(r) => resp = ErrorBody(401, "Missing auth headers")
        /\ (HeadersPresent(r) /\ ~Fresh(r.ts.val)) =>
              resp = ErrorBody(401, "Timestamp expired")
        /\ (HeadersPresent(r) /\ Fresh(r.ts.val) /\ ~Known(r)) =>
              resp = ErrorBody(401, "Unknown agent")
        /\ (HeadersPresent(r) /\ Fresh(r.ts.val) /\ SentBy(r, {"pending", "revoked"})) =>
              /\ resp.code = 403
              /\ resp.kind = "status"
              /\ resp.status = agents[r.id.val].status
        /\ (HeadersPresent(r) /\ Fresh(r.ts.val) /\ SentBy(r, {"approved"})
                /\ ~SignatureVerifies(r)) =>
              resp = ErrorBody(401, "Invalid signature")
        /\ resp.code \notin {401, 403} =>
              /\ HeadersPresent(r) /\ Fresh(r.ts.val)
              /\ SentBy(r, {"approved"}) /\ SignatureVerifies(r)

\* a pending agent's well-signed report with a stale timestamp is rejected
\* for the timestamp
C4_Witness ==
    /\ last.op = "report"
    /\ SentBy(last.req, {"pending"})
    /\ HeadersPresent(last.req)
    /\ Numeric(last.req.ts.val) /\ ~Fresh(last.req.ts.val)
    /\ SignatureVerifies(last.req)
    /\ resp = ErrorBody(401, "Timestamp expired")

\* the signatures a sender can put on a request in place of its own
SuppliedSignatures(req) ==
    {GarbageSig, sign_payload(PrivatePem("kA"), JsonListBody, req.ts.val)}
        \cup {sign_payload(PrivatePem(k), req.body, req.ts.val) : k \in Keys}

\* C5: for a pending or revoked agent, two checkins or two reports that
\* differ only in the signature supplied get the same response and leave the
\* same state, and the response given is the one a valid signature gets.
C5_SignatureBlind ==
    /\ \A r \in AuthCheckinRequests(clock) \cup AuthReportRequests(clock) :
          (SentBy(r, {"pending", "revoked"}) /\ SigTruthy(r.sig)) =>
              \A sig \in SuppliedSignatures(r) :
                  LET twin == [r EXCEPT !.sig = sig] IN
                  /\ checkin(agents, clock, r) = checkin(agents, clock, twin)
                  /\ report(agents, vehicles, positions, realtime, clock, r, NoFault)
                        = report(agents, vehicles, positions, realtime, clock,
                                 twin, NoFault)
    /\ (Handled /\ SentBy(last.req, {"pending", "revoked"}) /\ SigTruthy(last.req.sig)) =>
          LET r == last.req
              signed == [r EXCEPT !.sig =
                            sign_payload(PrivatePem(load_pem_public_key(
                                             agents[r.id.val].public_key)),
                                         r.body, r.ts.val)]
          IN  resp = IF last.op = "checkin"
                     THEN checkin(agents, clock, signed)
                     ELSE report(agents, vehicles, positions, realtime, clock,
                                 signed, NoFault).resp

\* a pending agent's fresh checkin under a signature that does not verify is
\* answered with its status
C5_Witness ==
    /\ last.op = "checkin"
    /\ SentBy(last.req, {"pending"})
    /\ HeadersPresent(last.req) /\ Fresh(last.req.ts.val)
    /\ ~SignatureVerifies(last.req)
    /\ resp = StatusBody(403, "pending", "Agent pending approval")

\* C6 as stated: every checkin or report from a pending or revoked agent is
\* answered 403 with the agent's status and never with a schedule.
C6_AlwaysForbidden ==
    (Handled /\ SentBy(last.req, {"pending", "revoked"})) =>
        /\ resp.code = 403
        /\ resp.status = agents[last.req.id.val].status
        /\ resp.kind # "schedule"

\* C6 amended: a checkin or report from a pending or revoked agent never
\* receives a schedule, and when it carries the three headers and a fresh
\* timestamp it is answered 403 with the agent's status.
C6_StatusEchoed ==
    (Handled /\ SentBy(last.req, {"pending", "revoked"})) =>
        /\ resp.kind # "schedule" /\ resp.code # 200
        /\ (HeadersPresent(last.req) /\ Fresh(last.req.ts.val)) =>
              /\ resp.code = 403
              /\ resp.kind = "status"
              /\ resp.status = agents[last.req.id.val].status

\* a revoked agent's fresh, well-signed report is answered with its status
C6_Witness ==
    /\ last.op = "report"
    /\ SentBy(last.req, {"revoked"})
    /\ HeadersPresent(last.req) /\ Fresh(last.req.ts.val)
    /\ SignatureVerifies(last.req)
    /\ resp = StatusBody(403, "revoked", "Agent revoked")

\* timestamps a sender may put in X-Agent-Ts: at every skew, with the
\* spellings int() accepts, and strings int() rejects
TimestampPool(c) ==
    {Stamp(c, d) : d \in Skews}
        \cup {<<" ">> \o Stamp(c, MAX_SKEW) \o <<" ">>,
              <<"+">> \o Stamp(c, 0 - MAX_SKEW),
              <<"+">> \o Stamp(c, MAX_SKEW + 1),
              <<"0", "_">> \o Stamp(c, 0),
              <<"-">> \o Stamp(c, 0),
              <<>>, <<"s", "o", "o", "n">>, <<"4", "0", ".", "5">>,
              <<"_">> \o Stamp(c, 0), <<"4", " ", "0">>}

\* C7: validate_timestamp accepts exactly the strings that int() parses to a
\* t with now - 30 <= t <= now + 30, now being the server's time in whole
\* seconds; a checkin or report whose timestamp is outside that window is
\* never served, whatever its signature.
C7_FreshnessWindow ==
    /\ \A ts \in TimestampPool(clock) : validate_timestamp(ts, clock) <=> Fresh(ts)
    /\ (Handled /\ resp.code = 200) => Fresh(last.req.ts.val)

\* a checkin stamped 30 seconds ahead of the server is served
C7_Witness ==
    /\ last.op = "checkin"
    /\ Numeric(last.req.ts.val)
    /\ ParseInt(last.req.ts.val).val = IntTime(clock) + MAX_SKEW
    /\ resp.code = 200

\* the reason given to a numeric timestamp more than 30 seconds from now
StaleReason ==
    checkin(agents, clock,
            Signed(IdA, "kA", Stamp(clock, MAX_SKEW + 1), EmptyBody)).error

\* C8 as stated: a non-numeric timestamp is rejected with a reason of its
\* own, different from the one given to a stale numeric timestamp.
C8_DistinctReason ==
    (Handled /\ HeadersPresent(last.req) /\ ~Numeric(last.req.ts.val)) =>
        /\ resp.code = 401
        /\ resp.error # StaleReason

\* C8 amended: a non-numeric timestamp and a numeric one more than 30 seconds
\* from now are rejected alike, 401 with the one reason "Timestamp expired".
C8_OneReason ==
    /\ StaleReason = "Timestamp expired"
    /\ (Handled /\ HeadersPresent(last.req) /\ ~Fresh(last.req.ts.val)) =>
          resp = ErrorBody(401, "Timestamp expired")

\* a checkin whose timestamp is a word is told its timestamp expired
C8_Witness ==
    /\ last.op = "checkin"
    /\ HeadersPresent(last.req)
    /\ last.req.ts.val = <<"s", "o", "o", "n">>
    /\ resp = ErrorBody(401, "Timestamp expired")

(***************************************************************************)
(* The claims about what a report leaves behind (checked under SpecReport). *)
(***************************************************************************)
\* the request passes all five checks in the state it meets
Authentic(req) ==
    /\ HeadersPresent(req) /\ Fresh(req.ts.val)
    /\ SentBy(req, {"approved"}) /\ SignatureVerifies(req)

\* processing the payload raises: a feature fails validation or a step faults
Raises(data, fault) == ~AvlValid(data) \/ fault.step # "none"

\* C9: a report from an authenticated approved agent whose body is not JSON,
\* or is JSON but no object with a features key, is answered 200 with a
\* schedule, adds one to the agent's failed_reports, leaves total_reports as
\* it was and stores no vehicle or position.
C9_InvalidBodyCounted ==
    [][(last'.op = "report" /\ Authentic(last'.req) /\ ~BodyParses(last'.req.body)) =>
          LET a == last'.req.id.val IN
          /\ resp'.code = 200 /\ resp'.kind = "schedule"
          /\ agents'[a].failed_reports = agents[a].failed_reports + 1
          /\ agents'[a].total_reports = agents[a].total_reports
          /\ vehicles' = vehicles /\ positions' = positions]_vars

\* C10: when a step of processing a well-formed report raises (validation,
\* upsert, insert, snapshot, recording the success) the report is recorded
\* as failed and answered 200 with a schedule; no authenticated report is
\* answered with a 5xx (stated here of the bodies json.loads decodes or
\* rejects, C9 covering the others).
C10_ExceptionsAbsorbed ==
    [][(last'.op = "report" /\ Authentic(last'.req)
            /\ ~JsonLoadsOverflows(last'.req.body)) =>
          LET a == last'.req.id.val IN
          /\ resp'.code < 500
          /\ (BodyParses(last'.req.body) /\ Raises(last'.req.body, last'.fault)) =>
                /\ resp'.code = 200 /\ resp'.kind = "schedule"
                /\ agents'[a].failed_reports = agents[a].failed_reports + 1
                /\ agents'[a].total_reports = agents[a].total_reports]_vars

(***************************************************************************)
(* The registry's claims (checked under SpecRegistry).                      *)
(***************************************************************************)
\* a registration the handler accepted: a name and a well-formed public key
Registered == last.op = "register" /\ resp.kind = "registered"

\* C11: registration is idempotent by key: the call answers with the id
\* derived from the key, leaves one record under that id, and when the key is
\* already registered returns the record's current status and changes nothing
\* in any record (name, status, counters).
C11_RegisterIdempotent ==
    [][(last'.op = "register" /\ resp'.kind = "registered") =>
          LET agent_id == agent_id_from_public_key(last'.req.public_key) IN
          /\ resp'.agent_id = agent_id
          /\ DOMAIN agents' = DOMAIN agents \cup {agent_id}
          /\ \A a \in DOMAIN agents : agents'[a] = agents[a]
          /\ agent_id \in DOMAIN agents => resp'.status = agents[agent_id].status]_vars

\* an approved agent that has reported registers again under another name
C11_Witness ==
    /\ Registered
    /\ resp.status = "approved"
    /\ agents[resp.agent_id].name # last.req.name
    /\ agents[resp.agent_id].total_reports > 0

AgentStatuses == {"pending", "approved", "revoked"}

\* C12: every agent's status is pending, approved or revoked; a record made
\* by self-registration starts pending, one made by the admin's create starts
\* approved, and no operation removes a record.
C12_StatusesAndNoDeletion ==
    [][/\ DOMAIN agents \subseteq DOMAIN agents'
       /\ \A a \in DOMAIN agents' : agents'[a].status \in AgentStatuses
       /\ \A a \in DOMAIN agents' \ DOMAIN agents :
             \/ last'.op = "register" /\ agents'[a].status = "pending"
             \/ last'.op = "create" /\ agents'[a].status = "approved"]_vars

\* a self-registered agent has been revoked and the admin has just created
\* another
C12_Witness ==
    /\ last.op = "create" /\ resp.code = 200
    /\ agents[last.req.agent_id].status = "approved"
    /\ \E a \in DOMAIN agents : agents[a].status = "revoked" /\ agents[a].name = "plow-1"

\* an admin call that passed the cookie check
AdminDid(op) == last.op = op /\ resp.code = 200

\* C13: approve sets the named agent's status to approved and revoke sets it
\* to revoked whatever the status was, touching nothing else; applied to an
\* agent already in that status the call succeeds and changes nothing.
C13_ApproveRevokeSetStatus ==
    [][(last'.op \in {"approve", "revoke"} /\ resp'.code = 200) =>
          LET agent_id == last'.req.agent_id
              target == IF last'.op = "approve" THEN "approved" ELSE "revoked"
          IN  /\ DOMAIN agents' = DOMAIN agents
              /\ \A a \in DOMAIN agents \ {agent_id} : agents'[a] = agents[a]
              /\ agent_id \in DOMAIN agents =>
                    /\ agents'[agent_id] = [agents[agent_id] EXCEPT !.status = target]
                    /\ agents[agent_id].status = target => agents' = agents]_vars

\* approve has acted on a registered agent that has already reported, so one
\* that was approved before
C13_Witness ==
    /\ AdminDid("approve")
    /\ last.req.agent_id \in DOMAIN agents
    /\ agents[last.req.agent_id].status = "approved"
    /\ agents[last.req.agent_id].failed_reports = MaxReports

\* C14: recording a report sets the agent's last_seen_at to the current time;
\* a success adds one to total_reports, sets consecutive_failures to 0 and
\* leaves failed_reports; a failure adds one to failed_reports and to
\* consecutive_failures and leaves total_reports.
C14_RecordReport ==
    [][(last'.op = "report" /\ Authentic(last'.req) /\ last'.fault = NoFault
            /\ ~JsonLoadsOverflows(last'.req.body)) =>
          LET a == last'.req.id.val
              success == BodyParses(last'.req.body) /\ AvlValid(last'.req.body)
          IN  /\ agents'[a].last_seen_at = clock
              /\ success =>
                    /\ agents'[a].total_reports = agents[a].total_reports + 1
                    /\ agents'[a].consecutive_failures = 0
                    /\ agents'[a].failed_reports = agents[a].failed_reports
              /\ ~success =>
                    /\ agents'[a].failed_reports = agents[a].failed_reports + 1
                    /\ agents'[a].consecutive_failures = agents[a].consecutive_failures + 1
                    /\ agents'[a].total_reports = agents[a].total_reports]_vars

\* a success has just been recorded after a failure, at a later instant
C14_Witness ==
    /\ last.op = "report" /\ resp.kind = "schedule"
    /\ clock # FirstTime
    /\ LET a == last.req.id.val IN
       /\ agents[a].last_seen_at = clock
       /\ agents[a].total_reports = 1
       /\ agents[a].failed_reports = 1
       /\ agents[a].consecutive_failures = 0
       /\ BodyParses(last.req.body)

\* C15: no operation lowers an agent's total_reports or failed_reports, and
\* consecutive_failures stays between 0 and failed_reports.
C15_CountersMonotone ==
    [][/\ \A a \in DOMAIN agents :
             /\ a \in DOMAIN agents'
             /\ agents'[a].total_reports >= agents[a].total_reports
             /\ agents'[a].failed_reports >= agents[a].failed_reports
       /\ \A a \in DOMAIN agents' :
             /\ 0 <= agents'[a].consecutive_failures
             /\ agents'[a].consecutive_failures <= agents'[a].failed_reports]_vars

\* an agent with a failure followed by a success, revoked afterwards: its
\* counters stand, and consecutive_failures is below failed_reports
C15_Witness ==
    /\ AdminDid("revoke")
    /\ \E a \in DOMAIN agents :
          /\ agents[a].status = "revoked"
          /\ agents[a].failed_reports > 0
          /\ agents[a].consecutive_failures = 0
          /\ agents[a].total_reports > 0

C17_CheckinReadOnly ==
    [][(last'.op = "checkin" /\ Authentic(last'.req)) =>
          /\ resp' = build_schedule_response(last'.req.id.val, _get_current_schedule(agents))
          /\ DOMAIN agents' = DOMAIN agents
          /\ \A a \in DOMAIN agents :
                /\ agents'[a].total_reports = agents[a].total_reports
                /\ agents'[a].failed_reports = agents[a].failed_reports
                /\ agents'[a].consecutive_failures = agents[a].consecutive_failures
          /\ positions' = positions
          /\ vehicles' = vehicles
          /\ realtime' = realtime]_vars

\* a checkin answered with a schedule when positions and a snapshot are
\* stored and both agents have counted reports
C17_Witness ==
    /\ last.op = "checkin" /\ resp.kind = "schedule"
    /\ positions # {}
    /\ DOMAIN realtime # {}
    /\ \E a, b \in DOMAIN agents :
          a # b /\ agents[a].total_reports > 0 /\ agents[b].failed_reports > 0

(***************************************************************************)
(* The poll loop's claims (checked under SpecCollector).                    *)
(***************************************************************************)
\* a cycle of the source has just run its checks
Cycled(source) == last.op = "cycle" /\ last.req.source = source

\* some approved agent was seen no more than the threshold ago
FreshApprovedAgent(db, c) ==
    \E a \in DOMAIN db :
        /\ db[a].status = "approved"
        /\ db[a].last_seen_at # NeverSeen
        /\ c - db[a].last_seen_at <= SKIP_THRESHOLD * TicksPerSecond

\* C18 as stated: an unpaused cycle of the avl source skips its direct fetch
\* exactly when some approved agent has a last_seen_at at most 30 seconds
\* old; a cycle of any other source goes on to the fetch.
C18_SkipsExactlyWhenAgentFresh ==
    [][(last'.op = "cycle" /\ last'.req.source \notin paused) =>
          IF ParserOf(last'.req.source) = "avl"
          THEN (resp'.outcome = "agents_active") <=> FreshApprovedAgent(agents, clock)
          ELSE resp'.outcome = "fetch"]_vars

\* C18, amended: an unpaused cycle of the avl source whose agent check
\* completes skips its direct fetch exactly when some approved agent has a
\* last_seen_at at most 30 seconds old (pending, revoked and never-seen
\* agents do not count); when the agent check raises, the cycle performs the
\* direct fetch. A cycle of any other source never skips because of agents.
\* A cycle that does not skip starts the fetch.
C18_SkipsWhenCheckedAgentFresh ==
    [][(last'.op = "cycle" /\ last'.req.source \notin paused) =>
          LET source == last'.req.source IN
          /\ IF ParserOf(source) # "avl" \/ last'.req.check_raises
             THEN resp'.outcome = "fetch"
             ELSE (resp'.outcome = "agents_active") <=> FreshApprovedAgent(agents, clock)
          /\ resp'.outcome \in {"agents_active", "fetch"}
          /\ pollPc'[source] = IF resp'.outcome = "fetch" THEN "fetching"
                               ELSE "sleep_skipped"]_vars

\* the avl cycle has skipped for an approved agent seen exactly 30 seconds
\* ago
C18_Witness ==
    /\ Cycled("st_johns")
    /\ resp.outcome = "agents_active"
    /\ agents[IdA].status = "approved"
    /\ clock - agents[IdA].last_seen_at = SKIP_THRESHOLD * TicksPerSecond

\* C19: a cycle that finds its source in the pause set ends there, before
\* the agent check: it starts no fetch and writes neither tables nor
\* snapshot, whatever the agents' activity; a collector fetch and its writes
\* only ever follow a cycle whose source was not paused at its start.
C19_PausedCycleDoesNothing ==
    [][/\ (last'.op = "cycle" /\ last'.req.source \in paused) =>
             /\ resp'.outcome = "paused"
             /\ pollPc'[last'.req.source] = "sleep_paused"
             /\ vehicles' = vehicles /\ positions' = positions /\ realtime' = realtime
       /\ \A s \in DOMAIN pollPc :
             (pollPc[s] # "fetching" /\ pollPc'[s] = "fetching") =>
                 last'.op = "cycle" /\ last'.req.source = s /\ s \notin paused
       /\ last'.op = "fetched" => pollPc[last'.req.source] = "fetching"]_vars

\* a paused cycle of the avl source while an approved agent is fresh
C19_Witness ==
    /\ Cycled("st_johns")
    /\ resp.outcome = "paused"
    /\ "st_johns" \in paused
    /\ FreshApprovedAgent(agents, clock)

(***************************************************************************)
(* The position store's claim (checked under SpecIngest).                   *)
(***************************************************************************)
\* the call handed a parsed payload to process_poll, which did not raise
Ingests(call) ==
    \/ /\ call.op = "fetched"
       /\ call.req.response # FetchError
       /\ ParserOf(call.req.source) = "avl" => AvlValid(call.req.response)
    \/ /\ call.op = "report"
       /\ Authentic(call.req)
       /\ BodyParses(call.req.body) /\ AvlValid(call.req.body)
       /\ call.fault = NoFault

\* the source and the positions the call ingests at the instant c
Ingested(call, c) ==
    IF call.op = "report"
    THEN [source |-> "st_johns", list |-> AvlPositions(call.req.body)]
    ELSE [source |-> call.req.source,
          list |-> IF ParserOf(call.req.source) = "avl"
                   THEN AvlPositions(call.req.response)
                   ELSE AATrackingPositions(call.req.response, c)]

\* the rows of a table stored for (vehicle_id, timestamp, source)
StoredFor(table, vehicle_id, timestamp, source) ==
    {r \in table : /\ r.vehicle_id = vehicle_id
                   /\ r.timestamp = timestamp
                   /\ r.source = source}

\* C20: however often a position (vehicle_id, timestamp, source) is
\* ingested, by direct polls or by agent reports, exactly one row is stored
\* for it, the row of its first ingestion; an ingestion that brings only
\* positions already stored inserts zero rows and leaves the table as it was;
\* no ingestion removes or replaces a row, so a position that differs from a
\* stored one only in its source gets a row of its own.
C20_IngestIdempotent ==
    [][Ingests(last') =>
          LET ing == Ingested(last', clock)
              Before(i) == StoredFor(positions, ing.list[i].vehicle_id,
                                     ing.list[i].timestamp, ing.source)
              After(i) == StoredFor(positions', ing.list[i].vehicle_id,
                                    ing.list[i].timestamp, ing.source)
              repeat == \A i \in DOMAIN ing.list : Before(i) # {}
          IN  /\ \A i \in DOMAIN ing.list :
                    /\ Cardinality(After(i)) = 1
                    /\ Before(i) # {} => After(i) = Before(i)
              /\ positions \subseteq positions'
              /\ repeat =>
                    /\ positions' = positions
                    /\ inserted_count(positions, ing.list, clock, ing.source) = 0
                    /\ last'.op = "fetched" => resp'.inserted = 0
              /\ (~repeat /\ last'.op = "fetched") => resp'.inserted > 0]_vars

\* a poll has just repeated, at a later instant, a position stored before,
\* inserting nothing, while the same vehicle_id and timestamp are stored for
\* two sources, one row brought by a report
C20_Witness ==
    /\ last.op = "fetched" /\ resp.outcome = "stored" /\ resp.inserted = 0
    /\ last.req.source = "st_johns"
    /\ agents # <<>> /\ agents[IdA].total_reports > 0
    /\ \E r1, r2 \in positions :
          /\ r1.vehicle_id = r2.vehicle_id /\ r1.timestamp = r2.timestamp
          /\ r1.source = "st_johns" /\ r2.source = "mt_pearl"
          /\ r1.collected_at < clock

(***************************************************************************)
(* SpecHealth: two agents the admin made, one of which sends report after   *)
(* report that fails (and at most one that succeeds), while both check in   *)
(* and the admin lists the agents.                                          *)
(***************************************************************************)
HealthReports(c) ==
    {Signed(IdA, "kA", Stamp(c, 0), b) :
        b \in {HtmlBody, AvlBody(<<Feature(1, 1000, TRUE)>>)}}

HealthNext ==
    \/ \E k \in AgentKeys :
          create_agent_route(Cookie("secret"), k)
              /\ UNCHANGED <<schedVars, collectorVars, settingsVars, migrateVars>>
    \/ revoke_agent_route(Cookie("secret"), IdB)
          /\ UNCHANGED <<schedVars, collectorVars, settingsVars, migrateVars>>
    \/ approve_agent_route(Cookie("secret"), IdB)
          /\ UNCHANGED <<schedVars, collectorVars, settingsVars, migrateVars>>
    \/ \E k \in AgentKeys :
          Checkin(Signed(agent_id_from_public_key(k), k, Stamp(clock, 0), EmptyBody))
              /\ UNCHANGED <<schedVars, collectorVars, settingsVars, migrateVars>>
    \/ \E req \in HealthReports(clock) :
          /\ IdA \in DOMAIN agents
          /\ agents[IdA].failed_reports < MaxFailures
          /\ agents[IdA].total_reports < 1
          /\ HandleReport(req, NoFault)
          /\ UNCHANGED <<schedVars, collectorVars, settingsVars, migrateVars>>
    \/ list_agents_route(Cookie("secret"))
          /\ UNCHANGED <<schedVars, collectorVars, settingsVars, migrateVars>>

SpecHealth == Init /\ [][HealthNext]_vars

\* C21: health gates nothing.  A checkin or report of an approved agent that
\* passes the authenticator's checks is answered with a schedule whatever the
\* agent's consecutive failures, 30 and more included, and the schedule's
\* interval counts every approved agent, the failing ones among them.
C21_HealthGatesNothing ==
    (Handled /\ Authentic(last.req)) =>
        /\ resp.code = 200 /\ resp.kind = "schedule"
        /\ resp.interval_seconds = TARGET_INTERVAL * Cardinality(Approved)
        /\ last.req.id.val \in DOMAIN _get_current_schedule(agents)

\* an agent with 30 consecutive failures checks in beside a healthy one and
\* is handed its slot in a cycle of two
C21_Witness ==
    /\ last.op = "checkin" /\ last.req.id.val = IdA
    /\ IdA \in Approved /\ agents[IdA].consecutive_failures >= 30
    /\ IdB \in Approved
    /\ resp.kind = "schedule" /\ resp.interval_seconds = 2 * TARGET_INTERVAL

\* C28: the health shown for an agent is decided by its consecutive failures
\* alone: healthy below 5, degraded from 5 to 29, hibernating from 30 on.
C28_HealthFromConsecutiveFailures ==
    (last.op = "list" /\ resp.kind = "agents") =>
        \A i \in DOMAIN resp.agents :
            LET entry == resp.agents[i]
                failures == agents[entry.agent_id].consecutive_failures
            IN  /\ entry.consecutive_failures = failures
                /\ failures < 5 => entry.health = "healthy"
                /\ (failures >= 5 /\ failures <= 29) => entry.health = "degraded"
                /\ failures >= 30 => entry.health = "hibernating"

\* the list shows an agent at its fifth failure in a row as degraded
C28_Witness ==
    /\ last.op = "list" /\ resp.kind = "agents"
    /\ \E i \in DOMAIN resp.agents :
          /\ resp.agents[i].consecutive_failures = 5
          /\ resp.agents[i].health = "degraded"

(***************************************************************************)
(* SpecResponse: build_schedule_response applied to the schedules           *)
(* compute_schedule makes of the lists and target intervals of SchedInit,   *)
(* for agents in the schedule and agents absent from it.                    *)
(***************************************************************************)
BuildRequest(agent_id) == [agent_id |-> agent_id]

BuildResponse(agent_id) ==
    /\ schedPc = "running"
    /\ resp' = build_schedule_response(agent_id, schedule)
    /\ last' = Call("build_schedule_response", BuildRequest(agent_id), NoFault)
    /\ UNCHANGED <<agents, clock, vehicles, positions, realtime>>

ResponseNext ==
    \/ ComputeSchedule /\ UNCHANGED <<serverVars, collectorVars, settingsVars, migrateVars>>
    \/ \E a \in SchedIdPool :
          BuildResponse(a) /\ UNCHANGED <<schedVars, collectorVars, settingsVars, migrateVars>>

SpecResponse == SchedInit /\ [][ResponseNext]_vars

Built == last.op = "build_schedule_response"

\* C27 as stated: build_schedule_response answers an agent_id absent from the
\* schedule with interval = the target_interval of the schedule and offset 0,
\* and an agent_id in the schedule with that agent's interval and offset.
C27_DefaultIsTargetInterval ==
    Built =>
        LET agent_id == last.req.agent_id IN
        IF agent_id \in DOMAIN schedule
        THEN /\ resp.interval_seconds = schedule[agent_id].interval_seconds
             /\ resp.offset_seconds = schedule[agent_id].offset_seconds
        ELSE /\ resp.interval_seconds = schedTarget
             /\ resp.offset_seconds = 0

\* C27, amended: the answer for an agent_id absent from the schedule is
\* interval 6, offset 0, whatever target_interval the schedule was computed
\* with; an agent_id in the schedule gets exactly its interval and offset.
C27_DefaultIsSix ==
    Built =>
        LET agent_id == last.req.agent_id IN
        /\ resp.code = 200 /\ resp.kind = "schedule"
        /\ IF agent_id \in DOMAIN schedule
           THEN /\ resp.interval_seconds = schedule[agent_id].interval_seconds
                /\ resp.offset_seconds = schedule[agent_id].offset_seconds
           ELSE /\ resp.interval_seconds = 6
                /\ resp.offset_seconds = 0

\* an agent absent from a schedule of two agents computed for a target of 2
\* seconds is answered 6 and 0, while the agents in it cycle every 4 seconds
C27_Witness ==
    /\ Built
    /\ schedTarget = 2 /\ Cardinality(DOMAIN schedule) = 2
    /\ last.req.agent_id \notin DOMAIN schedule
    /\ resp = ScheduleBody(6, 0)

\* C22: after an admin create the server holds only the public key of the new
\* agent: the private key of the generated pair is in the create response,
\* the record holds the pair's public key, and no record of the registry and
\* no entry of the shared store holds a private key.
C22_PrivateKeyNotStored ==
    /\ \A a \in DOMAIN agents :
          /\ agents[a].public_key \in PublicPems
          /\ agents[a].public_key \notin PrivatePems
          /\ agents[a].name \notin PrivatePems
    /\ paused \cap PrivatePems = {}
    /\ AdminDid("create") =>
          /\ resp.kind = "created"
          /\ resp.agent_id = last.req.agent_id
          /\ resp.private_key \in PrivatePems
          /\ load_pem_private_key(resp.private_key)
                = load_pem_public_key(agents[resp.agent_id].public_key)

\* the admin has just created agent B: the response carries B's private key
\* and B's record its public key
C22_Witness ==
    /\ AdminDid("create")
    /\ resp.private_key = PrivatePem("kB")
    /\ agents[IdB].public_key = "kB"

\* C23: the agent_id is a function of the public key, and a record keeps its
\* public key for life: every record sits under the id derived from its key,
\* a registration is answered with the id derived from the key it sends, and
\* no step (register again, approve, revoke, checkin, report, create) removes
\* a record or changes its public_key.
C23_PublicKeyImmutable ==
    [][/\ \A a \in DOMAIN agents :
             /\ a \in DOMAIN agents'
             /\ agents'[a].public_key = agents[a].public_key
       /\ \A a \in DOMAIN agents' :
             agent_id_from_public_key(agents'[a].public_key) = a
       /\ (last'.op = "register" /\ resp'.kind = "registered") =>
             resp'.agent_id = agent_id_from_public_key(last'.req.public_key)]_vars

\* agent A, registered and since approved, registers again with another PEM
\* text of its key: it is answered its id and its record keeps the first text
C23_Witness ==
    /\ Registered
    /\ last.req.public_key = "kA-crlf"
    /\ resp.agent_id = IdA /\ resp.status = "approved"
    /\ agents[IdA].public_key = "kA"

(***************************************************************************)
(* SpecSignature: sign_payload applied to a private key, a body and a       *)
(* timestamp string, and verify_signature applied to its result with a      *)
(* public key, a body and a timestamp string that may each differ from      *)
(* what was signed.                                                         *)
(***************************************************************************)
ByteStrings == UNION {[1..n -> {"1", "2"}] : n \in 0..MaxBytes}

VerifyRequest(private_pem, body, timestamp, public_pem, vbody, vtimestamp) ==
    [body |-> body, public_pem |-> public_pem, private_pem |-> private_pem,
     timestamp |-> timestamp, vbody |-> vbody, vtimestamp |-> vtimestamp]

VerifiedBody(ok) == [ok |-> ok, kind |-> "verified", code |-> 200]

SignedBody(signature) == [kind |-> "signature", signature |-> signature, code |-> 200]

\* the inputs of one round: what is signed and what verify is given
SignatureInit ==
    /\ agents = <<>> /\ clock = FirstTime /\ vehicles = {} /\ positions = {}
    /\ realtime = <<>> /\ admin_password = ConfiguredPassword
    /\ SchedIdle /\ CollectorIdle /\ MigrateIdle
    /\ resp = PlainBody(0, "")
    /\ \E key \in AgentKeys, public_pem \in {"kA", "kA-crlf", "kB"} :
          \E body \in ByteStrings, timestamp \in ByteStrings :
              \E vbody \in ByteStrings, vtimestamp \in ByteStrings :
                  last = Call("input",
                              VerifyRequest(PrivatePem(key), RawBody(body), timestamp,
                                            public_pem, RawBody(vbody), vtimestamp),
                              NoFault)

\* the sender signs
Sign ==
    /\ last.op = "input"
    /\ resp' = SignedBody(sign_payload(last.req.private_pem, last.req.body,
                                       last.req.timestamp))
    /\ last' = [last EXCEPT !.op = "sign"]
    /\ UNCHANGED <<agents, clock, vehicles, positions, realtime>>

\* the receiver verifies the signature against what it was given
Verify ==
    /\ last.op = "sign"
    /\ resp' = VerifiedBody(verify_signature(last.req.public_pem, last.req.vbody,
                                             last.req.vtimestamp, resp.signature))
    /\ last' = [last EXCEPT !.op = "verify"]
    /\ UNCHANGED <<agents, clock, vehicles, positions, realtime>>

SignatureNext ==
    \/ Sign /\ UNCHANGED <<schedVars, collectorVars, settingsVars, migrateVars>>
    \/ Verify /\ UNCHANGED <<schedVars, collectorVars, settingsVars, migrateVars>>

SpecSignature == SignatureInit /\ [][SignatureNext]_vars

Verified == last.op = "verify"

\* the public key given to verify is the public half of the signing key
SameKeypair(req) ==
    \E k \in Keys : /\ req.private_pem = PrivatePem(k)
                    /\ req.public_pem \in {p \in PublicPems : load_pem_public_key(p) = k}

\* C24: verify(pub, body, ts, sign(priv, body, ts)) is true for every keypair,
\* body and timestamp string; with another key's public key, or with the
\* body changed and the timestamp kept, or with the timestamp changed and the
\* body kept, verify is false.
C24_SignVerifyRoundTrip ==
    Verified =>
        LET req == last.req IN
        /\ (SameKeypair(req) /\ req.vbody = req.body /\ req.vtimestamp = req.timestamp)
              => resp.ok
        /\ ~SameKeypair(req) => ~resp.ok
        /\ (req.vbody # req.body /\ req.vtimestamp = req.timestamp) => ~resp.ok
        /\ (req.vbody = req.body /\ req.vtimestamp # req.timestamp) => ~resp.ok

\* a signature over body 1, timestamp 12 is refused for the same key and body
\* when the timestamp offered is 1
C24_Witness ==
    /\ Verified
    /\ SameKeypair(last.req)
    /\ last.req.body = RawBody(<<"1">>) /\ last.req.vbody = last.req.body
    /\ last.req.timestamp = <<"1", "2">> /\ last.req.vtimestamp = <<"1">>
    /\ ~resp.ok

(***************************************************************************)
(* SpecAdmin: the seven admin routes behind the cookie check, called with   *)
(* every kind of cookie, on a server started with or without an admin       *)
(* password, beside one agent that registers itself.                        *)
(***************************************************************************)
AdminInit ==
    /\ agents = <<>> /\ clock = FirstTime /\ vehicles = {} /\ positions = {}
    /\ realtime = <<>>
    /\ resp = PlainBody(0, "")
    /\ last = Call("start", NullRequest, NoFault)
    /\ SchedIdle /\ CollectorIdle /\ MigrateIdle
    /\ admin_password \in {NoPassword, ConfiguredPassword}

\* the cookies a caller sends: none, an empty one, the token of the password,
\* of a wrong password and of the empty password, and one that is not ASCII
SentCookies ==
    {NoCookie, EmptyCookie, Cookie("secret"), Cookie("guess"), Cookie(""),
     NonAsciiCookie}

AdminNext ==
    \/ agent_register([kind |-> "object", public_key |-> "kA", name |-> "plow-1"])
          /\ UNCHANGED <<schedVars, collectorVars, settingsVars, migrateVars>>
    \/ \E t \in SentCookies :
          \/ list_agents_route(t) /\ UNCHANGED <<schedVars, collectorVars, settingsVars, migrateVars>>
          \/ create_agent_route(t, "kB")
                /\ UNCHANGED <<schedVars, collectorVars, settingsVars, migrateVars>>
          \/ \E a \in {IdA, IdB} :
                approve_agent_route(t, a)
                    /\ UNCHANGED <<schedVars, collectorVars, settingsVars, migrateVars>>
          \/ \E a \in {IdA, IdB} :
                revoke_agent_route(t, a)
                    /\ UNCHANGED <<schedVars, collectorVars, settingsVars, migrateVars>>
          \/ admin_status(t) /\ UNCHANGED <<schedVars, settingsVars, migrateVars>>
          \/ \E s \in EnabledSources :
                pause_collector(t, s) /\ UNCHANGED <<schedVars, settingsVars, migrateVars>>
          \/ \E s \in EnabledSources :
                resume_collector(t, s) /\ UNCHANGED <<schedVars, settingsVars, migrateVars>>

SpecAdmin == AdminInit /\ [][AdminNext]_vars

AdminOps == {"list", "create", "approve", "revoke", "status", "pause", "resume"}

\* the call's cookie is the token derived from the configured password
HoldsToken(req) ==
    /\ admin_password # NoPassword
    /\ req.admin_token = _make_token(admin_password)

\* C25: an admin route other than login, called without a cookie equal to
\* the token of the configured password, answers 401 and leaves the agent
\* registry and the pause set as they were; with no password configured no
\* cookie is accepted.
C25_AdminRoutesRequireToken ==
    [][(last'.op \in AdminOps /\ ~HoldsToken(last'.req)) =>
          /\ resp'.code = 401
          /\ agents' = agents
          /\ paused' = paused]_vars

\* what does hold: such a call is never served and changes nothing
C25_RefusedCallsChangeNothing ==
    [][(last'.op \in AdminOps /\ ~HoldsToken(last'.req)) =>
          /\ resp'.code \in {401, 500}
          /\ resp'.code = 500 => last'.req.admin_token = NonAsciiCookie
          /\ agents' = agents
          /\ paused' = paused]_vars

\* a cookie that is not ASCII is answered 500 by a server with a password
C25_NonAsciiCookieAnswered500 ==
    /\ last.op = "pause" /\ last.req.admin_token = NonAsciiCookie
    /\ admin_password = ConfiguredPassword
    /\ resp = ServerError

\* C26: pause(s) adds s to the pause set and resume(s) removes it, leaving
\* every other source as it was (so a repeated call changes nothing); the
\* paused_sources in the answer of pause, of resume and of the status route
\* are the pause set as the call leaves it.
C26_PauseResume ==
    [][/\ (last'.op = "pause" /\ resp'.code = 200) =>
             /\ paused' = paused \cup {last'.req.source}
             /\ resp'.paused_sources = paused'
       /\ (last'.op = "resume" /\ resp'.code = 200) =>
             /\ paused' = paused \ {last'.req.source}
             /\ resp'.paused_sources = paused'
       /\ (last'.op = "status" /\ resp'.code = 200) =>
             /\ paused' = paused
             /\ resp'.paused_sources = paused]_vars

\* st_johns, paused together with mt_pearl, has just been resumed: the answer
\* lists mt_pearl alone
C26_Witness ==
    /\ last.op = "resume" /\ last.req.source = "st_johns"
    /\ resp.code = 200
    /\ resp.paused_sources = {"mt_pearl"}
    /\ paused = {"mt_pearl"}

(***************************************************************************)
(* SpecLoop: the poll_source tasks of two sources under cancellation.  An   *)
(* agent reports (so that avl cycles are skipped), an admin pauses and      *)
(* resumes, fetches fail or succeed, and a task, or run() with all its      *)
(* tasks, is cancelled at whatever await it is suspended at.  A sleep ends  *)
(* after its interval, so a cycle that can start does start (weak           *)
(* fairness).                                                               *)
(***************************************************************************)
CancelRequest(source, at) == [source |-> source, at |-> at]

\* the task's pc once a CancelledError has been thrown at its await; a task
\* that has ended stays as it ended
AfterCancel(pc) ==
    IF pc \in {"cancelled", "crashed"} THEN pc ELSE AfterRaise(pc, CancelledError)

\* task.cancel() on the task of one source
CancelTask(source) ==
    /\ source \in DOMAIN pollPc
    /\ pollPc[source] \notin {"cancelled", "crashed"}
    /\ pollPc' = [pollPc EXCEPT ![source] = AfterCancel(@)]
    /\ last' = Call("cancel", CancelRequest(source, pollPc[source]), NoFault)
    /\ resp' = PollBody(source, pollPc'[source], 0)
    /\ UNCHANGED <<agents, clock, vehicles, positions, realtime, paused>>

\* the task of run() is cancelled while it awaits gather: gather cancels
\* every task it holds, and run's handler cancels each again and re-raises
CancelRun ==
    /\ \E s \in DOMAIN pollPc : pollPc[s] \notin {"cancelled", "crashed"}
    /\ pollPc' = [s \in DOMAIN pollPc |-> AfterCancel(pollPc[s])]
    /\ last' = Call("cancel_run", CancelRequest("", pollPc), NoFault)
    /\ resp' = PollBody("", "cancelled", 0)
    /\ UNCHANGED <<agents, clock, vehicles, positions, realtime, paused>>

LoopResponses(source) ==
    IF ParserOf(source) = "avl"
    THEN {FetchError, AvlBody(<<Feature(1, 1000, TRUE)>>),
          AvlBody(<<Feature(1, 1000, TRUE), Feature(2, 1000, FALSE)>>)}
    ELSE {FetchError, AATrackingBody(<<AATrackingItem(2, NoDatetime, TRUE)>>)}

LoopCycle(source) ==
    \E check_raises \in BOOLEAN :
        PollCycle(source, check_raises) /\ UNCHANGED <<schedVars, settingsVars, migrateVars>>

LoopNext ==
    \/ create_agent_route(Cookie("secret"), "kA")
          /\ UNCHANGED <<schedVars, collectorVars, settingsVars, migrateVars>>
    \/ Report(Signed(IdA, "kA", Stamp(clock, 0), HtmlBody), NoFault)
          /\ UNCHANGED <<schedVars, collectorVars, settingsVars, migrateVars>>
    \/ \E s \in EnabledSources :
          pause_collector(Cookie("secret"), s) /\ UNCHANGED <<schedVars, settingsVars, migrateVars>>
    \/ \E s \in EnabledSources :
          resume_collector(Cookie("secret"), s) /\ UNCHANGED <<schedVars, settingsVars, migrateVars>>
    \/ \E s \in EnabledSources : LoopCycle(s)
    \/ \E s \in EnabledSources :
          \E response \in LoopResponses(s) :
              FetchReturns(s, response) /\ UNCHANGED <<schedVars, settingsVars, migrateVars>>
    \/ \E s \in EnabledSources :
          CancelTask(s) /\ UNCHANGED <<schedVars, settingsVars, migrateVars>>
    \/ CancelRun /\ UNCHANGED <<schedVars, settingsVars, migrateVars>>

SpecLoop ==
    /\ CollectorInit
    /\ [][LoopNext]_vars
    /\ \A s \in EnabledSources : WF_vars(LoopCycle(s))

Ended == {"cancelled", "crashed"}

\* C29: a poll task cancelled at any of its awaits (the sleep of a paused
\* cycle, the sleep of a cycle skipped for active agents, the upstream fetch,
\* the sleep that ends a cycle) ends cancelled, no handler keeping it in the
\* loop, and stays ended; the other tasks are not affected; cancelling run()
\* ends every task that has not ended.
C29_CancellationPropagates ==
    [][/\ last'.op = "cancel" =>
             /\ pollPc'[last'.req.source] = "cancelled"
             /\ \A s \in DOMAIN pollPc \ {last'.req.source} : pollPc'[s] = pollPc[s]
       /\ last'.op = "cancel_run" =>
             \A s \in DOMAIN pollPc : pollPc'[s] = "cancelled"
       /\ \A s \in DOMAIN pollPc :
             pollPc[s] \in Ended => pollPc'[s] = pollPc[s]]_vars

\* the avl task was cancelled in the sleep of a cycle it had skipped for
\* active agents, inside the try of the agent check, and has ended
C29_Witness ==
    /\ last.op = "cancel"
    /\ last.req.source = "st_johns" /\ last.req.at = "sleep_skipped"
    /\ pollPc["st_johns"] = "cancelled"
    /\ pollPc["mt_pearl"] = "fetching"

\* C30: a fetch, parse or store failure does not end the loop: the task goes
\* to the sleep that ends the cycle, the other tasks are where they were,
\* and from that sleep the task goes on to its next cycle unless it is
\* cancelled; a task only ever ends by a cancellation.
C30_FailureKeepsLoopAlive ==
    /\ [][/\ (last'.op = "fetched" /\ resp'.outcome = "failed") =>
                /\ pollPc'[last'.req.source] = "sleep_end"
                /\ \A s \in DOMAIN pollPc \ {last'.req.source} : pollPc'[s] = pollPc[s]
          /\ \A s \in DOMAIN pollPc :
                (pollPc[s] \notin Ended /\ pollPc'[s] \in Ended) =>
                    /\ pollPc'[s] = "cancelled"
                    /\ last'.op \in {"cancel", "cancel_run"}]_vars
    /\ \A s \in EnabledSources :
          (pollPc[s] = "sleep_end") ~> (pollPc[s] \in {"sleep_paused", "sleep_skipped",
                                                        "fetching", "cancelled"})

\* the fetch of the avl source has just failed while the other source's
\* task is in its own fetch: the avl task sleeps to its next cycle
C30_Witness ==
    /\ last.op = "fetched" /\ last.req.source = "st_johns"
    /\ last.req.response = FetchError
    /\ resp.outcome = "failed"
    /\ pollPc["st_johns"] = "sleep_end"
    /\ pollPc["mt_pearl"] = "fetching"

(***************************************************************************)
(* The agent check that fails (checked under SpecCollector).                *)
(***************************************************************************)
\* C31: when reading the agent registry raises during the agent check of a
\* cycle, the cycle goes on to the direct fetch: it is not skipped, however
\* fresh the agents are, and the task is left awaiting fetch_source, neither
\* asleep nor ended; the other tasks stay where they were.
C31_FailedCheckFetches ==
    [][(last'.op = "cycle" /\ last'.req.check_raises) =>
          LET source == last'.req.source IN
          /\ resp'.outcome = "fetch"
          /\ pollPc'[source] = "fetching"
          /\ \A s \in DOMAIN pollPc : s # source => pollPc'[s] = pollPc[s]]_vars

\* the agent check of the avl cycle has raised while an approved agent was
\* fresh, and the task awaits its fetch
C31_Witness ==
    /\ Cycled("st_johns")
    /\ last.req.check_raises
    /\ FreshApprovedAgent(agents, clock)
    /\ pollPc["st_johns"] = "fetching"

(***************************************************************************)
(* SpecSnapshot: the realtime snapshots under both writers.  The poll loops *)
(* of two sources fetch, and their fetches fail, deliver payloads the       *)
(* parser rejects, or meet a store that raises; an approved agent reports   *)
(* meanwhile, also while a fetch is awaited; the clock moves past the skip  *)
(* threshold.                                                               *)
(***************************************************************************)
SnapshotTimes == {(40 + SKIP_THRESHOLD) * TicksPerSecond + 1}

SnapshotResponses(source) ==
    IF ParserOf(source) = "avl"
    THEN {AvlBody(<<Feature(1, 2000, TRUE)>>),
          AvlBody(<<Feature(1, 1000, TRUE), Feature(2, 1000, FALSE)>>)}
    ELSE {AATrackingBody(<<AATrackingItem(1, 1000 + NST_CORRECTION_MS, TRUE)>>)}

SnapshotReports(c) ==
    {Signed(IdA, "kA", Stamp(c, 0), b) :
        b \in {HtmlBody, AvlBody(<<Feature(1, 1000, TRUE), Feature(2, 1000, TRUE)>>)}}

\* where the store raises: at the second row of insert_positions, in
\* build_realtime_snapshot, or in record_agent_report
SnapshotFaults ==
    {NoFault} \cup {f \in Faults : /\ ~f.lasting
                                    /\ \/ f.step = "insert" /\ f.k = 1
                                       \/ f.step \in {"snapshot", "record"}}

SnapshotNext ==
    \/ TickWithin(SnapshotTimes) /\ UNCHANGED <<schedVars, collectorVars, settingsVars, migrateVars>>
    \/ create_agent_route(Cookie("secret"), "kA")
          /\ UNCHANGED <<schedVars, collectorVars, settingsVars, migrateVars>>
    \/ \E req \in SnapshotReports(clock), fault \in SnapshotFaults :
          Report(req, fault) /\ UNCHANGED <<schedVars, collectorVars, settingsVars, migrateVars>>
    \/ \E s \in EnabledSources : PollCycle(s, FALSE) /\ UNCHANGED <<schedVars, settingsVars, migrateVars>>
    \/ \E s \in EnabledSources :
          \E response \in SnapshotResponses(s) \cup {FetchError} :
              FetchReturns(s, response) /\ UNCHANGED <<schedVars, settingsVars, migrateVars>>
    \/ \E s \in EnabledSources :
          \E response \in SnapshotResponses(s), fault \in SnapshotFaults :
              FetchFaults(s, response, fault) /\ UNCHANGED <<schedVars, settingsVars, migrateVars>>

SpecSnapshot == CollectorInit /\ [][SnapshotNext]_vars

\* the step was a step of the poll task of the source: the head of a cycle,
\* or the end of its fetch
PollStep(call, source) == call.op \in {"cycle", "fetched"} /\ call.req.source = source

\* the snapshot of a source, none cached being no vehicle shown
SnapshotOf(rt, source) == IF source \in DOMAIN rt THEN rt[source] ELSE {}

\* C32: a step of a polling cycle that fails (the fetch raised, the parser
\* rejected the payload, or the store raised part-way) leaves every snapshot
\* as it was, as does a cycle that is paused or skipped; the step that ends a
\* successful cycle leaves the other sources' snapshots as they were and
\* makes the source's snapshot the one built from the tables as they are once
\* its positions are stored.
C32_SnapshotOnlyOnSuccess ==
    [][\A source \in EnabledSources : PollStep(last', source) =>
          IF resp'.outcome = "stored"
          THEN /\ source \in DOMAIN realtime'
               /\ realtime'[source] = build_realtime_snapshot(vehicles', positions', source)
               /\ LET list == Ingested(last', clock).list IN
                  \A i \in DOMAIN list :
                      StoredFor(positions', list[i].vehicle_id, list[i].timestamp,
                                source) # {}
               /\ \A s \in DOMAIN realtime' \ {source} :
                     s \in DOMAIN realtime /\ realtime'[s] = realtime[s]
          ELSE realtime' = realtime]_vars

\* a poll of the primary source has just failed in the store after writing
\* a row, and the snapshot an agent's report left is still the cached one
C32_Witness ==
    /\ last.op = "fetched" /\ last.req.source = "st_johns"
    /\ resp.outcome = "failed"
    /\ last.fault.step = "insert" /\ last.fault.k = 1
    /\ "st_johns" \in DOMAIN realtime
    /\ realtime["st_johns"] # {}
    /\ realtime["st_johns"] # build_realtime_snapshot(vehicles, positions, "st_johns")

\* the step stored a payload for the primary source and assigned its
\* snapshot: a poll of st_johns that ended stored, or a report from an
\* authenticated agent whose payload validated and whose storing and
\* snapshot did not raise
WritesPrimarySnapshot(call, response) ==
    \/ PollStep(call, "st_johns") /\ response.outcome = "stored"
    \/ /\ call.op = "report"
       /\ Authentic(call.req)
       /\ BodyParses(call.req.body) /\ AvlValid(call.req.body)
       /\ call.fault.step \in {"none", "record"}

\* C33: whichever of the two writers runs, and however poll cycles and
\* reports interleave (a report may be handled while the poll awaits its
\* fetch), the st_johns snapshot is assigned only by a step that has just
\* stored a payload for st_johns, and is then the snapshot of the tables as
\* that step leaves them; every other step leaves it as it was.  So the
\* cached snapshot is the store's content as of the latest successful
\* ingestion: each vehicle it shows is stored with that position, and no
\* assignment moves a vehicle back to an older position.
C33_SnapshotFollowsStore ==
    /\ [][LET before == SnapshotOf(realtime, "st_johns")
              after == SnapshotOf(realtime', "st_johns")
          IN  /\ IF WritesPrimarySnapshot(last', resp')
                 THEN /\ "st_johns" \in DOMAIN realtime'
                      /\ after = build_realtime_snapshot(vehicles', positions', "st_johns")
                 ELSE /\ after = before
                      /\ "st_johns" \in DOMAIN realtime' <=> "st_johns" \in DOMAIN realtime
              /\ \A e \in before :
                    \E f \in after : /\ f.vehicle_id = e.vehicle_id
                                     /\ f.timestamp >= e.timestamp
              /\ positions \subseteq positions']_vars
    /\ [](\A e \in SnapshotOf(realtime, "st_johns") :
              StoredFor(positions, e.vehicle_id, e.timestamp, "st_johns") # {})

\* a report that brings an older position of vehicle 1 has been handled
\* while the poll of st_johns awaits its next fetch, after a poll had stored
\* a newer one: the snapshot still shows the newer position, beside the
\* vehicle the report added
C33_Witness ==
    /\ last.op = "report" /\ last.fault = NoFault
    /\ last.req.body = AvlBody(<<Feature(1, 1000, TRUE), Feature(2, 1000, TRUE)>>)
    /\ pollPc["st_johns"] = "fetching"
    /\ "st_johns" \in DOMAIN realtime
    /\ realtime["st_johns"] =
          {[timestamp |-> 2000 + NST_CORRECTION_MS, vehicle_id |-> 1],
           [timestamp |-> 1000 + NST_CORRECTION_MS, vehicle_id |-> 2]}

(***************************************************************************)
(* What a rejected request leaves behind (checked under SpecReport).        *)
(***************************************************************************)
\* C34: a checkin or a report answered 401 or 403 writes nothing: the
\* agents' rows (last_seen_at and counters among them), the vehicles, the
\* positions and the snapshots are as before; and every checkin or report
\* that fails authentication is answered so.
C34_RejectedChangesNothing ==
    [][last'.op \in {"checkin", "report"} =>
          /\ resp'.code \in {401, 403} =>
                /\ agents' = agents
                /\ vehicles' = vehicles
                /\ positions' = positions
                /\ realtime' = realtime
          /\ ~Authentic(last'.req) => resp'.code \in {401, 403}]_vars

\* a revoked agent that had reported with success has just sent a
\* well-formed payload and got 403, the tables not being empty
C34_Witness ==
    /\ last.op = "report"
    /\ resp.code = 403
    /\ BodyParses(last.req.body) /\ AvlValid(last.req.body)
    /\ Len(last.req.body.features) = 2
    /\ positions # {} /\ DOMAIN realtime # {}
    /\ agents[IdA].total_reports > 0
    /\ agents[IdA].status = "revoked"

(***************************************************************************)
(* Who changes an agent's status (checked under SpecRegistry).              *)
(***************************************************************************)
\* C35: register, checkin and report leave the status of every registered
\* agent as it was and remove no agent; a status differs after a step only
\* when the step was an admin's approve or revoke.  A revoked agent that
\* registers again with its key (however the PEM is written) is answered
\* with its own id and the status revoked, and the registry is left as it
\* was: no row is added.
C35_AgentsCannotChangeStatus ==
    [][/\ last'.op \in {"register", "checkin", "report"} =>
             \A a \in DOMAIN agents :
                 a \in DOMAIN agents' /\ agents'[a].status = agents[a].status
       /\ \A a \in DOMAIN agents \cap DOMAIN agents' :
             agents'[a].status # agents[a].status => last'.op \in {"approve", "revoke"}
       /\ (/\ last'.op = "register" /\ resp'.kind = "registered"
           /\ agent_id_from_public_key(last'.req.public_key) \in DOMAIN agents) =>
             LET agent_id == agent_id_from_public_key(last'.req.public_key) IN
             /\ agents' = agents
             /\ resp'.agent_id = agent_id
             /\ resp'.status = agents[agent_id].status]_vars

\* a revoked agent that had reported has registered again, its key written
\* with other line ends, and was answered revoked under its old id
C35_Witness ==
    /\ Registered
    /\ last.req.public_key = "kA-crlf"
    /\ resp.agent_id = IdA /\ resp.status = "revoked"
    /\ agents[IdA].status = "revoked"
    /\ agents[IdA].total_reports + agents[IdA].failed_reports > 0
    /\ DOMAIN agents = {IdA}

(***************************************************************************)
(* The count of authenticated reports (checked under SpecReport).           *)
(***************************************************************************)
\* C36: every report that passes authentication adds exactly one to exactly
\* one of the calling agent's total_reports and failed_reports and leaves
\* the counters of every other agent as they were, so that total_reports +
\* failed_reports counts the agent's authenticated reports.
C36_EachReportCountedOnce ==
    [][(last'.op = "report" /\ Authentic(last'.req)) =>
          LET a == last'.req.id.val
              dTotal == agents'[a].total_reports - agents[a].total_reports
              dFailed == agents'[a].failed_reports - agents[a].failed_reports
          IN  /\ <<dTotal, dFailed>> \in {<<1, 0>>, <<0, 1>>}
              /\ \A b \in DOMAIN agents \ {a} :
                    /\ agents'[b].total_reports = agents[b].total_reports
                    /\ agents'[b].failed_reports = agents[b].failed_reports]_vars

(***************************************************************************)
(* The caller's place in its own schedule (checked under Spec).             *)
(***************************************************************************)
\* C37: a checkin or report answered 200 is answered with a schedule
\* computed in the handler's own step: the approved agents are the same
\* before and after it, the caller is one of them and has an entry in the
\* schedule computed from them, the interval is 6 * (their number) and the
\* offset a multiple of 6 below the interval; the fallback for an agent
\* missing from the schedule is never what these handlers return, however
\* approve and revoke calls fall between the requests.
C37_CallerAlwaysScheduled ==
    [][(last'.op \in {"checkin", "report"} /\ resp'.code = 200) =>
          LET me == last'.req.id.val
              approvedAfter == {a \in DOMAIN agents' : agents'[a].status = "approved"}
              n == Cardinality(approvedAfter)
          IN  /\ resp'.kind = "schedule"
              /\ approvedAfter = Approved
              /\ me \in approvedAfter
              /\ me \in DOMAIN _get_current_schedule(agents')
              /\ resp' = build_schedule_response(me, _get_current_schedule(agents'))
              /\ resp'.interval_seconds = TARGET_INTERVAL * n
              /\ \E i \in 0..(n - 1) : resp'.offset_seconds = TARGET_INTERVAL * i
              /\ resp'.offset_seconds < resp'.interval_seconds]_vars

\* two agents are approved and the one that sorts second has just reported:
\* it is given the second slot of a 12 second cycle
C37_Witness ==
    /\ last.op = "report" /\ resp.code = 200
    /\ Cardinality(Approved) = 2
    /\ resp.interval_seconds = 2 * TARGET_INTERVAL
    /\ resp.offset_seconds = TARGET_INTERVAL

(***************************************************************************)
(* SpecCover: an approved agent whose reports all fail, one way or another, *)
(* beside the poll loops: bodies that are no JSON, a payload whose feature  *)
(* fails validation, brackets nested too deep for json.loads.               *)
(***************************************************************************)
CoverReports(c) ==
    {Signed(IdA, "kA", Stamp(c, 0), b) :
        b \in {HtmlBody, DeepBody,
               AvlBody(<<Feature(1, 1000, TRUE), Feature(2, 1000, FALSE)>>)}}

CoverNext ==
    \/ TickWithin(CollectorTimes) /\ UNCHANGED <<schedVars, collectorVars, settingsVars, migrateVars>>
    \/ create_agent_route(Cookie("secret"), "kA")
          /\ UNCHANGED <<schedVars, collectorVars, settingsVars, migrateVars>>
    \/ revoke_agent_route(Cookie("secret"), IdA)
          /\ UNCHANGED <<schedVars, collectorVars, settingsVars, migrateVars>>
    \/ \E req \in CoverReports(clock) :
          Report(req, NoFault) /\ UNCHANGED <<schedVars, collectorVars, settingsVars, migrateVars>>
    \/ \E s \in EnabledSources, check_raises \in BOOLEAN :
          PollCycle(s, check_raises) /\ UNCHANGED <<schedVars, settingsVars, migrateVars>>
    \/ \E s \in EnabledSources :
          FetchReturns(s, FetchError) /\ UNCHANGED <<schedVars, settingsVars, migrateVars>>

SpecCover == CollectorInit /\ [][CoverNext]_vars

\* C38: a cycle of the primary source that starts, unpaused and with its
\* agent check completing, right after an approved agent's report passed
\* authentication (so less than 30 seconds after it) skips its direct fetch,
\* whether or not that report delivered anything.
C38_ReportingAgentCoversFetch ==
    [][(/\ last.op = "report" /\ Authentic(last.req)
        /\ last'.op = "cycle" /\ last'.req.source = "st_johns"
        /\ "st_johns" \notin paused
        /\ ~last'.req.check_raises) =>
          resp'.outcome = "agents_active"]_vars

(***************************************************************************)
(* SpecPause: an admin pauses and resumes the primary source while an       *)
(* approved agent checks in and reports and the poll loops go on.           *)
(***************************************************************************)
PauseReports(c) ==
    {Signed(IdA, "kA", Stamp(c, 0), b) :
        b \in {HtmlBody, DeepBody,
               AvlBody(<<Feature(1, 1000, TRUE)>>),
               AvlBody(<<Feature(1, 2000, TRUE), Feature(2, 1000, TRUE)>>)}}

PauseNext ==
    \/ create_agent_route(Cookie("secret"), "kA")
          /\ UNCHANGED <<schedVars, collectorVars, settingsVars, migrateVars>>
    \/ Checkin(Signed(IdA, "kA", Stamp(clock, 0), EmptyBody))
          /\ UNCHANGED <<schedVars, collectorVars, settingsVars, migrateVars>>
    \/ \E req \in PauseReports(clock) :
          Report(req, NoFault) /\ UNCHANGED <<schedVars, collectorVars, settingsVars, migrateVars>>
    \/ pause_collector(Cookie("secret"), "st_johns") /\ UNCHANGED <<schedVars, settingsVars, migrateVars>>
    \/ resume_collector(Cookie("secret"), "st_johns") /\ UNCHANGED <<schedVars, settingsVars, migrateVars>>
    \/ \E s \in EnabledSources : PollCycle(s, FALSE) /\ UNCHANGED <<schedVars, settingsVars, migrateVars>>
    \/ \E s \in EnabledSources :
          \E response \in SnapshotResponses(s) \cup {FetchError} :
              FetchReturns(s, response) /\ UNCHANGED <<schedVars, settingsVars, migrateVars>>

SpecPause == CollectorInit /\ [][PauseNext]_vars

\* C39: while st_johns is in the pause set, a report from an authenticated
\* agent is handled as ever: a payload that validates has its positions
\* stored for st_johns, the st_johns snapshot rebuilt from the tables, one
\* added to total_reports and a schedule returned; a body that is no payload
\* adds one to failed_reports (a body json.loads cannot take is answered 500
\* paused or not, see C9); a checkin is answered with the schedule.  The
\* pause set is left as it was by them, and pausing and resuming write
\* neither the registry nor the tables nor the snapshots.
C39_PauseOnlyStopsPolling ==
    [][/\ (/\ last'.op = "report" /\ Authentic(last'.req) /\ "st_johns" \in paused
           /\ ~JsonLoadsOverflows(last'.req.body)) =>
             LET a == last'.req.id.val
                 list == AvlPositions(last'.req.body)
             IN  /\ resp'.code = 200 /\ resp'.kind = "schedule"
                 /\ paused' = paused
                 /\ agents'[a].last_seen_at = clock
                 /\ IF BodyParses(last'.req.body)
                    THEN /\ \A i \in DOMAIN list :
                               StoredFor(positions', list[i].vehicle_id,
                                         list[i].timestamp, "st_johns") # {}
                         /\ "st_johns" \in DOMAIN realtime'
                         /\ realtime'["st_johns"] =
                               build_realtime_snapshot(vehicles', positions', "st_johns")
                         /\ agents'[a].total_reports = agents[a].total_reports + 1
                    ELSE agents'[a].failed_reports = agents[a].failed_reports + 1
       /\ (last'.op = "checkin" /\ Authentic(last'.req) /\ "st_johns" \in paused) =>
             /\ resp' = build_schedule_response(last'.req.id.val,
                                                _get_current_schedule(agents))
             /\ paused' = paused
       /\ last'.op \in {"pause", "resume"} =>
             /\ agents' = agents /\ vehicles' = vehicles
             /\ positions' = positions /\ realtime' = realtime]_vars

\* the poll task of st_johns sleeps out a paused cycle, nothing was ever
\* fetched for st_johns, and the agent's report has just been stored, shown
\* in the snapshot and counted
C39_Witness ==
    /\ last.op = "report" /\ resp.code = 200
    /\ "st_johns" \in paused
    /\ pollPc["st_johns"] = "sleep_paused"
    /\ agents[IdA].total_reports = 2
    /\ "st_johns" \in DOMAIN realtime
    /\ realtime["st_johns"] =
          {[timestamp |-> 2000 + NST_CORRECTION_MS, vehicle_id |-> 1],
           [timestamp |-> 1000 + NST_CORRECTION_MS, vehicle_id |-> 2]}
    /\ \A p \in positions : p.source = "st_johns" => p.collected_at = clock

(***************************************************************************)
(* The migration runner (migrate.py).  A migration is a file NNN_name.py   *)
(* of the migrations directory, modelled by its number; the numbers of the *)
(* directory are distinct, as those of the repository's migrations are.    *)
(* A run is followed statement by statement: the upgrade of a migration    *)
(* and the INSERT that records it are two steps, and either may raise.     *)
(***************************************************************************)
\* the largest migration number of the directory
MaxMigrations == 3
\* the run_migrations calls followed
MaxRuns == 3

\* the numbers a migration file may carry: 000_x.py matches the pattern too
MigrationNumbers == 0..MaxMigrations

\* an exception out of _load_upgrade or upgrade(conn), and out of the INSERT
UpgradeRaises == [k |-> 0, step |-> "upgrade", lasting |-> FALSE]
InsertRaises == [k |-> 0, step |-> "insert_version", lasting |-> FALSE]

\* SELECT max(version), 0 over no row (and over no table)
get_version(rows) ==
    IF rows = <<>> THEN 0
    ELSE CHOOSE v \in Range(rows) : \A w \in Range(rows) : w <= v

\* the migration files found, sorted by number
RECURSIVE _discover(_)
_discover(dir) ==
    IF dir = {} THEN <<>>
    ELSE LET n == CHOOSE m \in dir : \A o \in dir : m <= o
         IN  <<n>> \o _discover(dir \ {n})

\* a runner that takes the current version for pending too
PendingFromCurrent(dir, rows) ==
    SelectSeq(_discover(dir), LAMBDA num : num >= get_version(rows))

\* pending = [... for num, path in _discover(migrations_dir) if num > current]
PendingMigrations(dir, rows) ==
    SelectSeq(_discover(dir), LAMBDA num : num > get_version(rows))

MigrateFrame ==
    UNCHANGED <<agents, clock, vehicles, positions, realtime, resp,
                schedVars, collectorVars, settingsVars>>

\* a migration file is added to the directory
WriteMigration(num) ==
    /\ num \notin migrations_dir
    /\ migrations_dir' = migrations_dir \cup {num}
    /\ last' = Call("write_migration", [number |-> num], NoFault)
    /\ UNCHANGED <<schema_version, migPc, pending, applied, migRuns>>
    /\ MigrateFrame

\* run_migrations up to its loop: the table ensured, the version read, the
\* pending list built; with nothing pending the call returns
run_migrations ==
    /\ migPc \in {"idle", "raised"}
    /\ migRuns < MaxRuns
    /\ migRuns' = migRuns + 1
    /\ pending' = PendingMigrations(migrations_dir, schema_version)
    /\ applied' = <<>>
    /\ migPc' = IF pending' = <<>> THEN "idle" ELSE "loop"
    /\ last' = Call("run_migrations", [number |-> get_version(schema_version)], NoFault)
    /\ UNCHANGED <<migrations_dir, schema_version>>
    /\ MigrateFrame

\* one pass of the loop up to the INSERT: the next pending migration is
\* loaded and its upgrade called; an exception is logged and raised again
Upgrade(fault) ==
    /\ migPc = "loop"
    /\ LET num == pending[Len(applied) + 1]
       IN  /\ last' = Call("upgrade", [number |-> num], fault)
           /\ IF fault = NoFault
              THEN /\ applied' = Append(applied, num)
                   /\ migPc' = "upgraded"
              ELSE /\ applied' = applied
                   /\ migPc' = "raised"
    /\ UNCHANGED <<migrations_dir, schema_version, pending, migRuns>>
    /\ MigrateFrame

\* the INSERT INTO schema_version after an upgrade that returned; the loop
\* goes on with the next pending migration, the call returns after the last
RecordVersion(fault) ==
    /\ migPc = "upgraded"
    /\ LET num == applied[Len(applied)]
       IN  /\ last' = Call("record", [number |-> num], fault)
           /\ IF fault = NoFault
              THEN /\ schema_version' = Append(schema_version, num)
                   /\ migPc' = IF Len(applied) = Len(pending) THEN "idle" ELSE "loop"
              ELSE /\ schema_version' = schema_version
                   /\ migPc' = "raised"
    /\ UNCHANGED <<migrations_dir, pending, applied, migRuns>>
    /\ MigrateFrame

MigrateNext ==
    \/ \E num \in MigrationNumbers : WriteMigration(num)
    \/ run_migrations
    \/ \E fault \in {NoFault, UpgradeRaises} : Upgrade(fault)
    \/ \E fault \in {NoFault, InsertRaises} : RecordVersion(fault)

SpecMigrate == Init /\ [][MigrateNext]_vars

\* C40: over any sequence of run_migrations calls: an upgrade is called for
\* the lowest-numbered migration still pending in the run, above every one
\* applied before it in the run, each of which was recorded before the next
\* began, and never for a number the schema_version table holds; a row is
\* added to schema_version only by the INSERT that follows the returned
\* upgrade of that very number; when an upgrade raises, the run is over with
\* the exception propagated, the table is left as it was, its version being
\* the last migration the run applied (or the version the run began at),
\* and nothing more is applied or recorded until run_migrations is called
\* again; a run that returns has applied and recorded its whole pending list
C40_MigrationsInOrderOnceStopOnError ==
    [][/\ last'.op = "upgrade" =>
             LET num == last'.req.number
             IN  /\ migPc = "loop"
                 /\ num \notin Range(schema_version)
                 /\ num > get_version(schema_version)
                 /\ \A i \in DOMAIN applied :
                       applied[i] < num /\ applied[i] \in Range(schema_version)
                 /\ \A m \in Range(pending) \ Range(applied) : num <= m
                 /\ last'.fault # NoFault =>
                       /\ migPc' = "raised"
                       /\ schema_version' = schema_version
                       /\ applied' = applied
                       /\ get_version(schema_version') =
                             IF applied = <<>> THEN get_version(schema_version)
                             ELSE applied[Len(applied)]
       /\ schema_version' # schema_version =>
             /\ last'.op = "record" /\ migPc = "upgraded"
             /\ applied # <<>> /\ applied[Len(applied)] = last'.req.number
             /\ schema_version' = Append(schema_version, last'.req.number)
       /\ migPc = "raised" =>
             /\ last'.op \in {"run_migrations", "write_migration"}
             /\ schema_version' = schema_version
             /\ applied' = applied \/ last'.op = "run_migrations"
       /\ (last'.op = "record" /\ migPc' = "idle") =>
             /\ applied' = pending
             /\ Range(pending) \subseteq Range(schema_version')]_vars

\* the second run: the first recorded migration 1 and stopped, this one
\* applied and recorded migration 2 and the upgrade of migration 3 raised,
\* leaving the version at 2
C40_Witness ==
    /\ migRuns = 2 /\ migPc = "raised"
    /\ last.op = "upgrade" /\ last.fault = UpgradeRaises /\ last.req.number = 3
    /\ pending = <<2, 3>> /\ applied = <<2>>
    /\ schema_version = <<1, 2>>
    /\ get_version(schema_version) = 2

====
